---- MODULE Spec2Model ----
(***************************************************************************)
(* Exec-approval safe-bin / allowlist evaluator (exec-approvals-allowlist). *)
(* Strings are TLA+ strings; a JavaScript value that may be undefined is an *)
(* option: the empty set when absent, a singleton when present.  An absent  *)
(* string and the empty string are both falsy in the source and are both    *)
(* written "".                                                              *)
(***************************************************************************)
EXTENDS Integers, Sequences, FiniteSets, TLC

\* ------------------------------------------------------------------------
\* Bounds of the model
\* ------------------------------------------------------------------------
\* simple commands of a command line handed to evaluateShellAllowlist
MaxCmds == 3
\* segments of an analysis handed to evaluateExecAllowlist
MaxSegs == 3

\* ------------------------------------------------------------------------
\* JavaScript values and string primitives
\* ------------------------------------------------------------------------
None == {}
Some(x) == {x}
OrElse(opt, dflt) == IF opt = {} THEN dflt ELSE CHOOSE x \in opt : TRUE

\* const v = value; F(v): the value is computed once and named
With(value, F(_)) == CHOOSE r \in {F(x) : x \in {value}} : TRUE

CharAt(s, i) == SubSeq(s, i, i)

StartsWith(s, prefix) ==
    Len(s) >= Len(prefix) /\ SubSeq(s, 1, Len(prefix)) = prefix

Whitespace == {" ", "\t", "\n"}

RECURSIVE TrimStart(_)
TrimStart(s) ==
    IF Len(s) > 0 /\ CharAt(s, 1) \in Whitespace
    THEN TrimStart(SubSeq(s, 2, Len(s)))
    ELSE s

RECURSIVE TrimEnd(_)
TrimEnd(s) ==
    IF Len(s) > 0 /\ CharAt(s, Len(s)) \in Whitespace
    THEN TrimEnd(SubSeq(s, 1, Len(s) - 1))
    ELSE s

Trim(s) == TrimEnd(TrimStart(s))

UpperToLower ==
    [A |-> "a", B |-> "b", C |-> "c", D |-> "d", E |-> "e", F |-> "f", G |-> "g",
     H |-> "h", I |-> "i", J |-> "j", K |-> "k", L |-> "l", M |-> "m", N |-> "n",
     O |-> "o", P |-> "p", Q |-> "q", R |-> "r", S |-> "s", T |-> "t", U |-> "u",
     V |-> "v", W |-> "w", X |-> "x", Y |-> "y", Z |-> "z"]

LowerChar(c) == IF c \in DOMAIN UpperToLower THEN UpperToLower[c] ELSE c

RECURSIVE ToLowerCase(_)
ToLowerCase(s) ==
    IF s = "" THEN ""
    ELSE LowerChar(CharAt(s, 1)) \o ToLowerCase(SubSeq(s, 2, Len(s)))

Letters == DOMAIN UpperToLower \cup {UpperToLower[c] : c \in DOMAIN UpperToLower}

\* String.prototype.indexOf for a single character: 0-based, -1 when absent
RECURSIVE IndexOfFrom(_, _, _)
IndexOfFrom(s, c, k) ==
    IF k > Len(s) THEN -1
    ELSE IF CharAt(s, k) = c THEN k - 1
    ELSE IndexOfFrom(s, c, k + 1)

IndexOf(s, c) == IndexOfFrom(s, c, 1)

\* String.prototype.slice(from) and slice(0, to), 0-based as in the source
SliceFrom(s, from) == SubSeq(s, from + 1, Len(s))
SliceTo(s, to) == SubSeq(s, 1, to)

\* ------------------------------------------------------------------------
\* Literal / glob / path classifier
\* ------------------------------------------------------------------------
\* the prefixes are looked for in the token as given, without trimming it
isPathLikeToken_untrimmed(value) ==
    IF Trim(value) = "" THEN FALSE
    ELSE IF Trim(value) = "-" THEN FALSE
    ELSE IF StartsWith(value, "./") \/ StartsWith(value, "../") \/ StartsWith(value, "~")
         THEN TRUE
    ELSE IF StartsWith(value, "/") THEN TRUE
    ELSE /\ Len(value) >= 3
         /\ CharAt(value, 1) \in Letters
         /\ CharAt(value, 2) = ":"
         /\ CharAt(value, 3) \in {"\\", "/"}

isPathLikeToken(value) ==
    LET trimmed == Trim(value) IN
    IF trimmed = "" THEN FALSE
    ELSE IF trimmed = "-" THEN FALSE
    ELSE IF StartsWith(trimmed, "./") \/ StartsWith(trimmed, "../") \/ StartsWith(trimmed, "~")
         THEN TRUE
    ELSE IF StartsWith(trimmed, "/") THEN TRUE
    ELSE /\ Len(trimmed) >= 3
         /\ CharAt(trimmed, 1) \in Letters
         /\ CharAt(trimmed, 2) = ":"
         /\ CharAt(trimmed, 3) \in {"\\", "/"}

GlobChars == {"*", "?", "[", "]"}

hasGlobToken(value) == \E k \in 1..Len(value) : CharAt(value, k) \in GlobChars

isSafeLiteralToken(value) ==
    IF value = "" \/ value = "-" THEN TRUE
    ELSE ~hasGlobToken(value) /\ ~isPathLikeToken(value)

\* ------------------------------------------------------------------------
\* Safe-bin profile registry
\* ------------------------------------------------------------------------
NO_FLAGS == {}

SAFE_BIN_GENERIC_PROFILE ==
    [minPositional |-> None, maxPositional |-> None, valueFlags |-> None, blockedFlags |-> None]

SAFE_BIN_PROFILES ==
    [jq |->
        [minPositional |-> None, maxPositional |-> Some(1),
         valueFlags |-> Some({"--arg", "--argjson", "--argstr", "--argfile", "--rawfile",
                              "--slurpfile", "--from-file", "--library-path", "-L", "-f"}),
         blockedFlags |-> Some({"--argfile", "--rawfile", "--slurpfile", "--from-file",
                                "--library-path", "-L", "-f"})],
     grep |->
        [minPositional |-> None, maxPositional |-> Some(1),
         valueFlags |-> Some({"--regexp", "--file", "--max-count", "--after-context",
                              "--before-context", "--context", "--devices", "--directories",
                              "--binary-files", "--exclude", "--exclude-from", "--include",
                              "--label", "-e", "-f", "-m", "-A", "-B", "-C", "-D", "-d"}),
         blockedFlags |-> Some({"--file", "--exclude-from", "--dereference-recursive",
                                "--directories", "--recursive", "-f", "-d", "-r", "-R"})],
     cut |->
        [minPositional |-> None, maxPositional |-> Some(0),
         valueFlags |-> Some({"--bytes", "--characters", "--fields", "--delimiter",
                              "--output-delimiter", "-b", "-c", "-f", "-d"}),
         blockedFlags |-> None],
     sort |->
        [minPositional |-> None, maxPositional |-> Some(0),
         valueFlags |-> Some({"--key", "--field-separator", "--buffer-size",
                              "--temporary-directory", "--compress-program", "--parallel",
                              "--batch-size", "--random-source", "--files0-from", "--output",
                              "-k", "-t", "-S", "-T", "-o"}),
         blockedFlags |-> Some({"--files0-from", "--output", "-o"})],
     uniq |->
        [minPositional |-> None, maxPositional |-> Some(0),
         valueFlags |-> Some({"--skip-fields", "--skip-chars", "--check-chars", "--group",
                              "-f", "-s", "-w"}),
         blockedFlags |-> None],
     head |->
        [minPositional |-> None, maxPositional |-> Some(0),
         valueFlags |-> Some({"--lines", "--bytes", "-n", "-c"}),
         blockedFlags |-> None],
     tail |->
        [minPositional |-> None, maxPositional |-> Some(0),
         valueFlags |-> Some({"--lines", "--bytes", "--sleep-interval",
                              "--max-unchanged-stats", "--pid", "-n", "-c"}),
         blockedFlags |-> None],
     tr |->
        [minPositional |-> Some(1), maxPositional |-> Some(2),
         valueFlags |-> None, blockedFlags |-> None],
     wc |->
        [minPositional |-> None, maxPositional |-> Some(0),
         valueFlags |-> Some({"--files0-from"}),
         blockedFlags |-> Some({"--files0-from"})]]

\* SAFE_BIN_PROFILES[execName] ?? SAFE_BIN_GENERIC_PROFILE
ProfileFor(execName) ==
    IF execName \in DOMAIN SAFE_BIN_PROFILES
    THEN SAFE_BIN_PROFILES[execName]
    ELSE SAFE_BIN_GENERIC_PROFILE

\* ------------------------------------------------------------------------
\* Argv validator.  Indices are 1-based here: args[i] of the model is
\* args[i - 1] of the source.
\* ------------------------------------------------------------------------
\* What the scan did with a token, kept beside the result: index is the
\* 1-based position in args, role is how the token was read (positional,
\* long, cluster, terminator, skip, or value / inline / missing for the value
\* of a value-flag), text is the string that was tested and ok is FALSE where
\* the scan returned false.
Role(index, role, text, ok) == [index |-> index, role |-> role, text |-> text, ok |-> ok]

\* the tokens after the "--" terminator are counted without being tested
RECURSIVE ScanAfterTerminator_unchecked(_, _, _, _)
ScanAfterTerminator_unchecked(args, j, positional, roles) ==
    IF j > Len(args) THEN [ok |-> TRUE, positional |-> positional, roles |-> roles]
    ELSE LET rest == args[j] IN
         IF rest = "" \/ rest = "-"
         THEN ScanAfterTerminator_unchecked(args, j + 1, positional,
                                            Append(roles, Role(j, "skip", rest, TRUE)))
         ELSE ScanAfterTerminator_unchecked(args, j + 1, Append(positional, rest),
                                            Append(roles, Role(j, "positional", rest, TRUE)))

\* a bare "-" behind the terminator is tested and counted like any token
RECURSIVE ScanAfterTerminator_dashCounted(_, _, _, _)
ScanAfterTerminator_dashCounted(args, j, positional, roles) ==
    IF j > Len(args) THEN [ok |-> TRUE, positional |-> positional, roles |-> roles]
    ELSE LET rest == args[j] IN
         IF rest = ""
         THEN ScanAfterTerminator_dashCounted(args, j + 1, positional,
                                              Append(roles, Role(j, "skip", rest, TRUE)))
         ELSE IF ~isSafeLiteralToken(rest)
              THEN [ok |-> FALSE, positional |-> positional,
                    roles |-> Append(roles, Role(j, "positional", rest, FALSE))]
         ELSE ScanAfterTerminator_dashCounted(args, j + 1, Append(positional, rest),
                                              Append(roles, Role(j, "positional", rest, TRUE)))

\* the inner loop entered on the "--" terminator
RECURSIVE ScanAfterTerminator(_, _, _, _)
ScanAfterTerminator(args, j, positional, roles) ==
    IF j > Len(args) THEN [ok |-> TRUE, positional |-> positional, roles |-> roles]
    ELSE LET rest == args[j] IN
         IF rest = "" \/ rest = "-"
         THEN ScanAfterTerminator(args, j + 1, positional,
                                  Append(roles, Role(j, "skip", rest, TRUE)))
         ELSE IF ~isSafeLiteralToken(rest)
              THEN [ok |-> FALSE, positional |-> positional,
                    roles |-> Append(roles, Role(j, "positional", rest, FALSE))]
         ELSE ScanAfterTerminator(args, j + 1, Append(positional, rest),
                                  Append(roles, Role(j, "positional", rest, TRUE)))

\* a blocked flag rejects the cluster wherever it stands, also behind a
\* value-flag character
RECURSIVE ScanShortCluster_blockedAnywhere(_, _, _, _, _, _)
ScanShortCluster_blockedAnywhere(token, j, args, i, valueFlags, blockedFlags) ==
    IF \E m \in j..Len(token) : ("-" \o CharAt(token, m)) \in blockedFlags
    THEN [ok |-> FALSE, step |-> 0, roles |-> <<Role(i, "cluster", token, FALSE)>>]
    ELSE IF j > Len(token)
    THEN [ok |-> ~hasGlobToken(token), step |-> 0,
          roles |-> <<Role(i, "cluster", token, ~hasGlobToken(token))>>]
    ELSE LET flag == "-" \o CharAt(token, j) IN
         IF flag \notin valueFlags
         THEN ScanShortCluster_blockedAnywhere(token, j + 1, args, i, valueFlags, blockedFlags)
         ELSE LET inlineValue == SubSeq(token, j + 1, Len(token)) IN
              IF inlineValue # ""
              THEN [ok |-> isSafeLiteralToken(inlineValue), step |-> 0,
                    roles |-> <<Role(i, "cluster", token, TRUE),
                                Role(i, "inline", inlineValue,
                                     isSafeLiteralToken(inlineValue))>>]
              ELSE IF i + 1 > Len(args)
                   THEN [ok |-> FALSE, step |-> 0,
                         roles |-> <<Role(i, "cluster", token, TRUE),
                                     Role(i + 1, "missing", "", FALSE)>>]
              ELSE IF args[i + 1] = "" \/ ~isSafeLiteralToken(args[i + 1])
                   THEN [ok |-> FALSE, step |-> 0,
                         roles |-> <<Role(i, "cluster", token, TRUE),
                                     Role(i + 1, "value", args[i + 1], FALSE)>>]
                   ELSE [ok |-> TRUE, step |-> 1,
                         roles |-> <<Role(i, "cluster", token, TRUE),
                                     Role(i + 1, "value", args[i + 1], TRUE)>>]

\* the inner loop over the characters of a short-flag cluster; j is the
\* 1-based position of the character (the source starts at index 1, the
\* model at position 2).  step: how far the outer index advances beyond the
\* cluster token.
RECURSIVE ScanShortCluster(_, _, _, _, _, _)
ScanShortCluster(token, j, args, i, valueFlags, blockedFlags) ==
    IF j > Len(token)
    THEN [ok |-> ~hasGlobToken(token), step |-> 0,
          roles |-> <<Role(i, "cluster", token, ~hasGlobToken(token))>>]
    ELSE LET flag == "-" \o CharAt(token, j) IN
         IF flag \in blockedFlags
         THEN [ok |-> FALSE, step |-> 0, roles |-> <<Role(i, "cluster", token, FALSE)>>]
         ELSE IF flag \notin valueFlags
              THEN ScanShortCluster(token, j + 1, args, i, valueFlags, blockedFlags)
         ELSE LET inlineValue == SubSeq(token, j + 1, Len(token)) IN
              IF inlineValue # ""
              THEN [ok |-> isSafeLiteralToken(inlineValue), step |-> 0,
                    roles |-> <<Role(i, "cluster", token, TRUE),
                                Role(i, "inline", inlineValue,
                                     isSafeLiteralToken(inlineValue))>>]
              ELSE IF i + 1 > Len(args)
                   THEN [ok |-> FALSE, step |-> 0,
                         roles |-> <<Role(i, "cluster", token, TRUE),
                                     Role(i + 1, "missing", "", FALSE)>>]
              ELSE IF args[i + 1] = "" \/ ~isSafeLiteralToken(args[i + 1])
                   THEN [ok |-> FALSE, step |-> 0,
                         roles |-> <<Role(i, "cluster", token, TRUE),
                                     Role(i + 1, "value", args[i + 1], FALSE)>>]
                   ELSE [ok |-> TRUE, step |-> 1,
                         roles |-> <<Role(i, "cluster", token, TRUE),
                                     Role(i + 1, "value", args[i + 1], TRUE)>>]

\* the value of a long flag is taken before the blocked flags are looked at
ScanLongFlag_valueBeforeBlocked(args, i, positional, valueFlags, blockedFlags) ==
    LET token == args[i]
        eqIndex == IndexOf(token, "=")
        flag == IF eqIndex > 0 THEN SliceTo(token, eqIndex) ELSE token
    IN
    IF eqIndex > 0
    THEN [ok |-> isSafeLiteralToken(SliceFrom(token, eqIndex + 1)),
          next |-> i + 1, positional |-> positional,
          roles |-> <<Role(i, "long", token, TRUE),
                      Role(i, "inline", SliceFrom(token, eqIndex + 1),
                           isSafeLiteralToken(SliceFrom(token, eqIndex + 1)))>>]
    ELSE IF flag \in valueFlags /\ i + 1 <= Len(args)
            /\ args[i + 1] # "" /\ isSafeLiteralToken(args[i + 1])
         THEN [ok |-> TRUE, next |-> i + 2, positional |-> positional,
               roles |-> <<Role(i, "long", token, TRUE),
                           Role(i + 1, "value", args[i + 1], TRUE)>>]
    ELSE [ok |-> flag \notin blockedFlags /\ flag \notin valueFlags,
          next |-> i + 1, positional |-> positional,
          roles |-> <<Role(i, "long", token, flag \notin blockedFlags /\ flag \notin valueFlags)>>]

\* the token after a bare value-flag is consumed without being tested
ScanLongFlag_valueUnchecked(args, i, positional, valueFlags, blockedFlags) ==
    LET token == args[i]
        eqIndex == IndexOf(token, "=")
        flag == IF eqIndex > 0 THEN SliceTo(token, eqIndex) ELSE token
    IN
    IF flag \in blockedFlags
    THEN [ok |-> FALSE, next |-> i, positional |-> positional,
          roles |-> <<Role(i, "long", token, FALSE)>>]
    ELSE IF eqIndex > 0
         THEN [ok |-> isSafeLiteralToken(SliceFrom(token, eqIndex + 1)),
               next |-> i + 1, positional |-> positional,
               roles |-> <<Role(i, "long", token, TRUE),
                           Role(i, "inline", SliceFrom(token, eqIndex + 1),
                                isSafeLiteralToken(SliceFrom(token, eqIndex + 1)))>>]
    ELSE IF flag \notin valueFlags
         THEN [ok |-> TRUE, next |-> i + 1, positional |-> positional,
               roles |-> <<Role(i, "long", token, TRUE)>>]
    ELSE IF i + 1 > Len(args)
         THEN [ok |-> FALSE, next |-> i, positional |-> positional,
               roles |-> <<Role(i, "long", token, TRUE), Role(i + 1, "missing", "", FALSE)>>]
    ELSE [ok |-> TRUE, next |-> i + 2, positional |-> positional,
          roles |-> <<Role(i, "long", token, TRUE), Role(i + 1, "value", args[i + 1], TRUE)>>]

\* the branch of the outer loop for a token that starts with "--"
ScanLongFlag(args, i, positional, valueFlags, blockedFlags) ==
    LET token == args[i]
        eqIndex == IndexOf(token, "=")
        flag == IF eqIndex > 0 THEN SliceTo(token, eqIndex) ELSE token
    IN
    IF flag \in blockedFlags
    THEN [ok |-> FALSE, next |-> i, positional |-> positional,
          roles |-> <<Role(i, "long", token, FALSE)>>]
    ELSE IF eqIndex > 0
         THEN [ok |-> isSafeLiteralToken(SliceFrom(token, eqIndex + 1)),
               next |-> i + 1, positional |-> positional,
               roles |-> <<Role(i, "long", token, TRUE),
                           Role(i, "inline", SliceFrom(token, eqIndex + 1),
                                isSafeLiteralToken(SliceFrom(token, eqIndex + 1)))>>]
    ELSE IF flag \notin valueFlags
         THEN [ok |-> TRUE, next |-> i + 1, positional |-> positional,
               roles |-> <<Role(i, "long", token, TRUE)>>]
    ELSE IF i + 1 > Len(args)
         THEN [ok |-> FALSE, next |-> i, positional |-> positional,
               roles |-> <<Role(i, "long", token, TRUE), Role(i + 1, "missing", "", FALSE)>>]
    ELSE IF args[i + 1] = "" \/ ~isSafeLiteralToken(args[i + 1])
         THEN [ok |-> FALSE, next |-> i, positional |-> positional,
               roles |-> <<Role(i, "long", token, TRUE),
                           Role(i + 1, "value", args[i + 1], FALSE)>>]
    ELSE [ok |-> TRUE, next |-> i + 2, positional |-> positional,
          roles |-> <<Role(i, "long", token, TRUE), Role(i + 1, "value", args[i + 1], TRUE)>>]

\* the "--" token is passed over and the tokens behind it are read as before
ScanIteration_terminatorIgnored(args, i, positional, valueFlags, blockedFlags) ==
    LET token == args[i] IN
    IF token = ""
    THEN [ok |-> TRUE, next |-> i + 1, positional |-> positional,
          roles |-> <<Role(i, "skip", token, TRUE)>>]
    ELSE IF token = "--"
         THEN [ok |-> TRUE, next |-> i + 1, positional |-> positional,
               roles |-> <<Role(i, "terminator", token, TRUE)>>]
    ELSE IF token = "-"
         THEN [ok |-> TRUE, next |-> i + 1, positional |-> positional,
               roles |-> <<Role(i, "skip", token, TRUE)>>]
    ELSE IF ~StartsWith(token, "-")
         THEN IF ~isSafeLiteralToken(token)
              THEN [ok |-> FALSE, next |-> i, positional |-> positional,
                    roles |-> <<Role(i, "positional", token, FALSE)>>]
              ELSE [ok |-> TRUE, next |-> i + 1, positional |-> Append(positional, token),
                    roles |-> <<Role(i, "positional", token, TRUE)>>]
    ELSE IF StartsWith(token, "--")
         THEN ScanLongFlag(args, i, positional, valueFlags, blockedFlags)
    ELSE With(ScanShortCluster(token, 2, args, i, valueFlags, blockedFlags),
              LAMBDA cluster : [ok |-> cluster.ok, next |-> i + 1 + cluster.step,
                                positional |-> positional, roles |-> cluster.roles])

\* one iteration of the outer loop, at i <= Len(args): whether it went on
\* (ok) or returned false, the index of the next iteration (beyond the end
\* after the break on "--"), the positional list and what was read
ScanIteration(args, i, positional, valueFlags, blockedFlags) ==
    LET token == args[i] IN
    IF token = ""
    THEN [ok |-> TRUE, next |-> i + 1, positional |-> positional,
          roles |-> <<Role(i, "skip", token, TRUE)>>]
    ELSE IF token = "--"
         THEN With(ScanAfterTerminator(args, i + 1, positional,
                                       <<Role(i, "terminator", token, TRUE)>>),
                   LAMBDA rest : [ok |-> rest.ok, next |-> Len(args) + 1,
                                  positional |-> rest.positional, roles |-> rest.roles])
    ELSE IF token = "-"
         THEN [ok |-> TRUE, next |-> i + 1, positional |-> positional,
               roles |-> <<Role(i, "skip", token, TRUE)>>]
    ELSE IF ~StartsWith(token, "-")
         THEN IF ~isSafeLiteralToken(token)
              THEN [ok |-> FALSE, next |-> i, positional |-> positional,
                    roles |-> <<Role(i, "positional", token, FALSE)>>]
              ELSE [ok |-> TRUE, next |-> i + 1, positional |-> Append(positional, token),
                    roles |-> <<Role(i, "positional", token, TRUE)>>]
    ELSE IF StartsWith(token, "--")
         THEN ScanLongFlag(args, i, positional, valueFlags, blockedFlags)
    ELSE With(ScanShortCluster(token, 2, args, i, valueFlags, blockedFlags),
              LAMBDA cluster : [ok |-> cluster.ok, next |-> i + 1 + cluster.step,
                                positional |-> positional, roles |-> cluster.roles])

\* the outer loop
RECURSIVE ScanArgs(_, _, _, _, _, _)
ScanArgs(args, i, positional, roles, valueFlags, blockedFlags) ==
    IF i > Len(args) THEN [ok |-> TRUE, positional |-> positional, roles |-> roles]
    ELSE With(ScanIteration(args, i, positional, valueFlags, blockedFlags),
              LAMBDA step :
                  IF ~step.ok
                  THEN [ok |-> FALSE, positional |-> step.positional,
                        roles |-> roles \o step.roles]
                  ELSE ScanArgs(args, step.next, step.positional, roles \o step.roles,
                                valueFlags, blockedFlags))

\* minPositional is not looked at
WithinPositionalBounds_noMin(positional, profile) ==
    IF profile.maxPositional # None
       /\ Len(positional) > OrElse(profile.maxPositional, 0)
    THEN FALSE
    ELSE TRUE

\* the positional bounds tested after the loop
WithinPositionalBounds(positional, profile) ==
    IF Len(positional) < OrElse(profile.minPositional, 0) THEN FALSE
    ELSE IF profile.maxPositional # None
            /\ Len(positional) > OrElse(profile.maxPositional, 0)
         THEN FALSE
    ELSE TRUE

\* the scan of validateSafeBinArgv over the whole of args
ScanOf(args, profile) ==
    ScanArgs(args, 1, <<>>, <<>>, OrElse(profile.valueFlags, NO_FLAGS),
             OrElse(profile.blockedFlags, NO_FLAGS))

validateSafeBinArgv(args, profile) ==
    With(ScanOf(args, profile),
         LAMBDA scanned :
             IF ~scanned.ok THEN FALSE
             ELSE WithinPositionalBounds(scanned.positional, profile))

\* ------------------------------------------------------------------------
\* External collaborators (exec-approvals-analysis, exec-safe-bin-trust).
\* A resolution is an option of [executableName, resolvedPath, rawExecutable];
\* a segment is [argv, resolution]; an allowlist entry is [pattern].
\* ------------------------------------------------------------------------
isWindowsPlatform(platform) == StartsWith(ToLowerCase(Trim(platform)), "win")

RECURSIVE LastIndexOfFrom(_, _, _)
LastIndexOfFrom(s, c, k) ==
    IF k < 1 THEN -1
    ELSE IF CharAt(s, k) = c THEN k - 1
    ELSE LastIndexOfFrom(s, c, k - 1)

LastIndexOf(s, c) == LastIndexOfFrom(s, c, Len(s))

Dirname(p) ==
    LET k == LastIndexOf(p, "/") IN
    IF k < 0 THEN "." ELSE IF k = 0 THEN "/" ELSE SliceTo(p, k)

Basename(p) == SliceFrom(p, LastIndexOf(p, "/") + 1)

\* path.parse(p).name: the base name without its last extension
PathParseName(p) ==
    LET base == Basename(p)
        dot == LastIndexOf(base, ".")
    IN IF dot > 0 THEN SliceTo(base, dot) ELSE base

isTrustedSafeBinPath(resolvedPath, trustedDirs) == Dirname(resolvedPath) \in trustedDirs

ExecutableNameOf(resolution) ==
    IF resolution = None THEN "" ELSE OrElse(resolution, [executableName |-> ""]).executableName

ResolvedPathOf(resolution) ==
    IF resolution = None THEN "" ELSE OrElse(resolution, [resolvedPath |-> ""]).resolvedPath

RawExecutableOf(resolution) ==
    IF resolution = None THEN "" ELSE OrElse(resolution, [rawExecutable |-> ""]).rawExecutable

\* the resolved path when there is one, else a path-shaped raw executable
\* resolved against cwd, else nothing ("")
resolveAllowlistCandidatePath(resolution, cwd) ==
    IF resolution = None THEN ""
    ELSE IF ResolvedPathOf(resolution) # "" THEN ResolvedPathOf(resolution)
    ELSE LET raw == Trim(RawExecutableOf(resolution)) IN
         IF raw = "" \/ IndexOf(raw, "/") < 0 THEN ""
         ELSE IF StartsWith(raw, "/") THEN raw
         ELSE IF StartsWith(raw, "./") THEN cwd \o "/" \o SliceFrom(raw, 2)
         ELSE cwd \o "/" \o raw

\* the first entry whose pattern is the resolved path
RECURSIVE MatchFrom(_, _, _)
MatchFrom(entries, k, resolvedPath) ==
    IF k > Len(entries) THEN None
    ELSE IF Trim(entries[k].pattern) # "" /\ Trim(entries[k].pattern) = resolvedPath
         THEN Some(entries[k])
    ELSE MatchFrom(entries, k + 1, resolvedPath)

matchAllowlist(entries, resolution) ==
    IF Len(entries) = 0 \/ ResolvedPathOf(resolution) = "" THEN None
    ELSE MatchFrom(entries, 1, ResolvedPathOf(resolution))

\* ------------------------------------------------------------------------
\* Safe-bin usage gate.  processPlatform is process.platform.
\* ------------------------------------------------------------------------
\* the rest of isSafeBinUsage once the resolution is known to name a safe bin
SafeBinTrustedAndValid(params, execName) ==
    IF ResolvedPathOf(params.resolution) = "" THEN FALSE
    ELSE IF ~isTrustedSafeBinPath(ResolvedPathOf(params.resolution), params.trustedSafeBinDirs)
         THEN FALSE
    ELSE validateSafeBinArgv(SubSeq(params.argv, 2, Len(params.argv)), ProfileFor(execName))

\* the platform check is missing
isSafeBinUsage_noPlatformCheck(params, processPlatform) ==
    IF Cardinality(params.safeBins) = 0 THEN FALSE
    ELSE LET execName == ToLowerCase(ExecutableNameOf(params.resolution)) IN
         IF execName = "" THEN FALSE
         ELSE IF execName \notin params.safeBins THEN FALSE
         ELSE SafeBinTrustedAndValid(params, execName)

\* the trust-boundary check is missing
isSafeBinUsage_noTrustCheck(params, processPlatform) ==
    IF isWindowsPlatform(processPlatform) THEN FALSE
    ELSE IF Cardinality(params.safeBins) = 0 THEN FALSE
    ELSE LET execName == ToLowerCase(ExecutableNameOf(params.resolution)) IN
         IF execName = "" THEN FALSE
         ELSE IF execName \notin params.safeBins THEN FALSE
         ELSE IF ResolvedPathOf(params.resolution) = "" THEN FALSE
         ELSE validateSafeBinArgv(SubSeq(params.argv, 2, Len(params.argv)),
                                  ProfileFor(execName))

isSafeBinUsage(params, processPlatform) ==
    IF isWindowsPlatform(processPlatform) THEN FALSE
    ELSE IF Cardinality(params.safeBins) = 0 THEN FALSE
    ELSE LET resolution == params.resolution
             execName == ToLowerCase(ExecutableNameOf(resolution))
             matchesSafeBin ==
                 \/ execName \in params.safeBins
                 \/ (processPlatform = "win32" /\ PathParseName(execName) \in params.safeBins)
         IN
         IF execName = "" THEN FALSE
         ELSE IF ~matchesSafeBin THEN FALSE
         ELSE SafeBinTrustedAndValid(params, execName)

\* ------------------------------------------------------------------------
\* Segment / chain evaluator.  An attribution is "allowlist", "safeBins",
\* "skills" or "none" (null in the source).  Every result carries, next to
\* the fields the source returns, trace: one entry per segment the callback
\* of segments.every was run on, whether or not its outcome was returned.
\* ------------------------------------------------------------------------
\* the copy of segment.resolution that carries the candidate path
CandidateResolution(segment, cwd) ==
    LET candidatePath == resolveAllowlistCandidatePath(segment.resolution, cwd) IN
    IF candidatePath # "" /\ segment.resolution # None
    THEN Some([OrElse(segment.resolution, [resolvedPath |-> ""])
                  EXCEPT !.resolvedPath = candidatePath])
    ELSE segment.resolution

\* the arguments the callback hands to isSafeBinUsage
GateParams(segment, params) ==
    [argv |-> segment.argv,
     resolution |-> segment.resolution,
     safeBins |-> params.safeBins,
     cwd |-> params.cwd,
     trustedSafeBinDirs |-> params.trustedSafeBinDirs]

\* an optional property of params that was given (the caller may leave
\* skillBins and autoAllowSkills out)
Given(params, name) == name \in DOMAIN params

\* params.skillBins?.size ?? 0
SkillBinsSize(params) ==
    IF Given(params, "skillBins") THEN Cardinality(params.skillBins) ELSE 0

\* a non-empty skillBins is enough: autoAllowSkills is not looked at
SkillAllow_autoAllowIgnored(segment, params) ==
    IF SkillBinsSize(params) > 0 /\ ExecutableNameOf(segment.resolution) # ""
    THEN ExecutableNameOf(segment.resolution) \in params.skillBins
    ELSE FALSE

\* const skillAllow
SkillAllow(segment, params) ==
    LET allowSkills ==
            /\ Given(params, "autoAllowSkills") /\ params.autoAllowSkills = TRUE
            /\ SkillBinsSize(params) > 0
    IN
    IF allowSkills /\ ExecutableNameOf(segment.resolution) # ""
    THEN ExecutableNameOf(segment.resolution) \in params.skillBins
    ELSE FALSE

\* the safe-bin gate is consulted before the allowlist match
EvaluateSegment_safeBinsFirst(segment, params, processPlatform) ==
    With(matchAllowlist(params.allowlist, CandidateResolution(segment, params.cwd)),
         LAMBDA match :
             [match |-> match,
              segment |-> segment,
              by |-> IF isSafeBinUsage(GateParams(segment, params), processPlatform)
                     THEN "safeBins"
                     ELSE IF match # None THEN "allowlist"
                     ELSE IF SkillAllow(segment, params) THEN "skills"
                     ELSE "none"])

\* the candidate path is written into segment.resolution itself
EvaluateSegment_writesResolution(segment, params, processPlatform) ==
    With([segment EXCEPT !.resolution = CandidateResolution(segment, params.cwd)],
         LAMBDA written :
             [match |-> matchAllowlist(params.allowlist, written.resolution),
              segment |-> written,
              by |-> IF matchAllowlist(params.allowlist, written.resolution) # None
                     THEN "allowlist"
                     ELSE IF isSafeBinUsage(GateParams(written, params), processPlatform)
                          THEN "safeBins"
                     ELSE IF SkillAllow(written, params) THEN "skills"
                     ELSE "none"])

\* one run of the callback of segments.every: the match, the segment as the
\* callback leaves it, and the attribution
EvaluateSegment(segment, params, processPlatform) ==
    With(matchAllowlist(params.allowlist, CandidateResolution(segment, params.cwd)),
         LAMBDA match :
             [match |-> match,
              segment |-> segment,
              by |-> IF match # None THEN "allowlist"
                     ELSE IF isSafeBinUsage(GateParams(segment, params), processPlatform)
                          THEN "safeBins"
                     ELSE IF SkillAllow(segment, params) THEN "skills"
                     ELSE "none"])

\* the callback is run on every segment, also behind one that resolved to none
RECURSIVE EveryFrom_noStop(_, _, _, _, _)
EveryFrom_noStop(segments, k, acc, params, processPlatform) ==
    IF k > Len(segments)
    THEN [acc EXCEPT !.satisfied = \A i \in DOMAIN acc.segmentSatisfiedBy :
                                      acc.segmentSatisfiedBy[i] # "none"]
    ELSE With(EvaluateSegment(segments[k], params, processPlatform),
              LAMBDA e :
                  EveryFrom_noStop(segments, k + 1,
                      [satisfied |-> FALSE,
                       matches |-> IF e.match # None
                                   THEN Append(acc.matches, OrElse(e.match, [pattern |-> ""]))
                                   ELSE acc.matches,
                       segmentSatisfiedBy |-> Append(acc.segmentSatisfiedBy, e.by),
                       trace |-> Append(acc.trace, [segment |-> e.segment, by |-> e.by])],
                      params, processPlatform))

\* segments.every: the callback runs on the segments in order up to the first
\* one it returns false for
RECURSIVE EveryFrom(_, _, _, _, _)
EveryFrom(segments, k, acc, params, processPlatform) ==
    IF k > Len(segments) THEN [acc EXCEPT !.satisfied = TRUE]
    ELSE With(EvaluateSegment(segments[k], params, processPlatform),
              LAMBDA e :
                  With([satisfied |-> FALSE,
                        matches |-> IF e.match # None
                                    THEN Append(acc.matches, OrElse(e.match, [pattern |-> ""]))
                                    ELSE acc.matches,
                        segmentSatisfiedBy |-> Append(acc.segmentSatisfiedBy, e.by),
                        trace |-> Append(acc.trace, [segment |-> e.segment, by |-> e.by])],
                       LAMBDA next :
                           IF e.by = "none" THEN next
                           ELSE EveryFrom(segments, k + 1, next, params, processPlatform)))

\* segments.some in place of segments.every: stops at the first attributed segment
RECURSIVE SomeFrom(_, _, _, _, _)
SomeFrom(segments, k, acc, params, processPlatform) ==
    IF k > Len(segments) THEN acc
    ELSE With(EvaluateSegment(segments[k], params, processPlatform),
              LAMBDA e :
                  With([satisfied |-> e.by # "none",
                        matches |-> IF e.match # None
                                    THEN Append(acc.matches, OrElse(e.match, [pattern |-> ""]))
                                    ELSE acc.matches,
                        segmentSatisfiedBy |-> Append(acc.segmentSatisfiedBy, e.by),
                        trace |-> Append(acc.trace, [segment |-> e.segment, by |-> e.by])],
                       LAMBDA next :
                           IF e.by # "none" THEN next
                           ELSE SomeFrom(segments, k + 1, next, params, processPlatform)))

evaluateSegments_some(segments, params, processPlatform) ==
    SomeFrom(segments, 1,
             [satisfied |-> FALSE, matches |-> <<>>, segmentSatisfiedBy |-> <<>>,
              trace |-> <<>>],
             params, processPlatform)

\* a segment that resolves to none leaves no entry in segmentSatisfiedBy
evaluateSegments_noneNotRecorded(segments, params, processPlatform) ==
    With(EveryFrom(segments, 1,
                   [satisfied |-> FALSE, matches |-> <<>>, segmentSatisfiedBy |-> <<>>,
                    trace |-> <<>>],
                   params, processPlatform),
         LAMBDA every :
             [every EXCEPT !.segmentSatisfiedBy =
                 SelectSeq(every.segmentSatisfiedBy, LAMBDA by : by # "none")])

evaluateSegments(segments, params, processPlatform) ==
    EveryFrom(segments, 1,
              [satisfied |-> FALSE, matches |-> <<>>, segmentSatisfiedBy |-> <<>>,
               trace |-> <<>>],
              params, processPlatform)

\* an unsatisfied chain part returns what the earlier parts accumulated
RECURSIVE EvaluateChainsFrom_partial(_, _, _, _, _)
EvaluateChainsFrom_partial(chains, k, acc, params, processPlatform) ==
    IF k > Len(chains)
    THEN [allowlistSatisfied |-> TRUE, allowlistMatches |-> acc.allowlistMatches,
          segmentSatisfiedBy |-> acc.segmentSatisfiedBy, trace |-> acc.trace]
    ELSE With(evaluateSegments(chains[k], params, processPlatform),
              LAMBDA result :
                  IF ~result.satisfied
                  THEN [allowlistSatisfied |-> FALSE,
                        allowlistMatches |-> acc.allowlistMatches,
                        segmentSatisfiedBy |-> acc.segmentSatisfiedBy,
                        trace |-> acc.trace \o result.trace]
                  ELSE EvaluateChainsFrom_partial(chains, k + 1,
                           [allowlistMatches |-> acc.allowlistMatches \o result.matches,
                            segmentSatisfiedBy |->
                                acc.segmentSatisfiedBy \o result.segmentSatisfiedBy,
                            trace |-> acc.trace \o result.trace],
                           params, processPlatform))

\* the matches of a chain part are put in front of those of the earlier parts
RECURSIVE EvaluateChainsFrom_matchesPrepended(_, _, _, _, _)
EvaluateChainsFrom_matchesPrepended(chains, k, acc, params, processPlatform) ==
    IF k > Len(chains)
    THEN [allowlistSatisfied |-> TRUE, allowlistMatches |-> acc.allowlistMatches,
          segmentSatisfiedBy |-> acc.segmentSatisfiedBy, trace |-> acc.trace]
    ELSE With(evaluateSegments(chains[k], params, processPlatform),
              LAMBDA result :
                  IF ~result.satisfied
                  THEN [allowlistSatisfied |-> FALSE, allowlistMatches |-> <<>>,
                        segmentSatisfiedBy |-> <<>>, trace |-> acc.trace \o result.trace]
                  ELSE EvaluateChainsFrom_matchesPrepended(chains, k + 1,
                           [allowlistMatches |-> result.matches \o acc.allowlistMatches,
                            segmentSatisfiedBy |->
                                acc.segmentSatisfiedBy \o result.segmentSatisfiedBy,
                            trace |-> acc.trace \o result.trace],
                           params, processPlatform))

\* the loop over params.analysis.chains
RECURSIVE EvaluateChainsFrom(_, _, _, _, _)
EvaluateChainsFrom(chains, k, acc, params, processPlatform) ==
    IF k > Len(chains)
    THEN [allowlistSatisfied |-> TRUE, allowlistMatches |-> acc.allowlistMatches,
          segmentSatisfiedBy |-> acc.segmentSatisfiedBy, trace |-> acc.trace]
    ELSE With(evaluateSegments(chains[k], params, processPlatform),
              LAMBDA result :
                  IF ~result.satisfied
                  THEN [allowlistSatisfied |-> FALSE, allowlistMatches |-> <<>>,
                        segmentSatisfiedBy |-> <<>>, trace |-> acc.trace \o result.trace]
                  ELSE EvaluateChainsFrom(chains, k + 1,
                           [allowlistMatches |-> acc.allowlistMatches \o result.matches,
                            segmentSatisfiedBy |->
                                acc.segmentSatisfiedBy \o result.segmentSatisfiedBy,
                            trace |-> acc.trace \o result.trace],
                           params, processPlatform))

\* params: [analysis, allowlist, safeBins, cwd, trustedSafeBinDirs, skillBins,
\* autoAllowSkills]; analysis: [ok, segments, chains (an option)]
\* evaluateExecAllowlist past its guard
EvaluateAnalysis(params, processPlatform) ==
    IF params.analysis.chains # None
    THEN EvaluateChainsFrom(OrElse(params.analysis.chains, <<>>), 1,
             [allowlistMatches |-> <<>>, segmentSatisfiedBy |-> <<>>, trace |-> <<>>],
             params, processPlatform)
    ELSE With(evaluateSegments(params.analysis.segments, params, processPlatform),
              LAMBDA result :
                  [allowlistSatisfied |-> result.satisfied,
                   allowlistMatches |-> result.matches,
                   segmentSatisfiedBy |-> result.segmentSatisfiedBy,
                   trace |-> result.trace])

\* the guard looks at the segments only, not at analysis.ok
evaluateExecAllowlist_okUnchecked(params, processPlatform) ==
    IF Len(params.analysis.segments) = 0
    THEN [allowlistSatisfied |-> FALSE, allowlistMatches |-> <<>>,
          segmentSatisfiedBy |-> <<>>, trace |-> <<>>]
    ELSE EvaluateAnalysis(params, processPlatform)

evaluateExecAllowlist(params, processPlatform) ==
    IF ~params.analysis.ok \/ Len(params.analysis.segments) = 0
    THEN [allowlistSatisfied |-> FALSE, allowlistMatches |-> <<>>,
          segmentSatisfiedBy |-> <<>>, trace |-> <<>>]
    ELSE EvaluateAnalysis(params, processPlatform)

\* ------------------------------------------------------------------------
\* The shell parser (exec-approvals-analysis).  A command line is modelled
\* parsed: a sequence of chain parts (joined by && || ;), each a sequence of
\* simple commands (joined by |), each an argv.  A chain part handed back to
\* the parser is a command line of one part.
\* ------------------------------------------------------------------------
\* the executables of the file system
Files == {"/usr/bin/head", "/bin/rm", "/tmp/evil/head"}

RECURSIVE FindInPath(_, _, _)
FindInPath(dirs, k, name) ==
    IF k > Len(dirs) THEN ""
    ELSE IF (dirs[k] \o "/" \o name) \in Files THEN dirs[k] \o "/" \o name
    ELSE FindInPath(dirs, k + 1, name)

resolveCommandResolution(argv, cwd, env) ==
    IF Len(argv) = 0 \/ argv[1] = "" THEN None
    ELSE LET raw == argv[1]
             resolvedPath ==
                 IF IndexOf(raw, "/") >= 0
                 THEN IF raw \in Files THEN raw ELSE ""
                 ELSE FindInPath(env.PATH, 1, raw)
         IN Some([rawExecutable |-> raw,
                  resolvedPath |-> resolvedPath,
                  executableName |-> IF resolvedPath # "" THEN Basename(resolvedPath) ELSE raw])

\* command substitution is a construct the parser does not model
Parsable(argv) == \A k \in 1..Len(argv) : IndexOf(argv[k], "$") < 0

SegmentOf(argv, cwd, env) ==
    [argv |-> argv, resolution |-> resolveCommandResolution(argv, cwd, env)]

PipelineSegments(part, cwd, env) == [k \in 1..Len(part) |-> SegmentOf(part[k], cwd, env)]

RECURSIVE Flatten(_)
Flatten(lists) == IF Len(lists) = 0 THEN <<>> ELSE Head(lists) \o Flatten(Tail(lists))

splitCommandChain(command) ==
    IF Len(command) < 2 THEN None
    ELSE Some([k \in 1..Len(command) |-> <<command[k]>>])

\* p: [command, cwd, env, platform].  The Windows tokenizer knows neither
\* chains nor pipes.
analyzeShellCommand(p) ==
    LET command == p.command
        parsable == /\ Len(command) > 0
                    /\ \A k \in 1..Len(command) :
                          /\ Len(command[k]) > 0
                          /\ \A j \in 1..Len(command[k]) : Parsable(command[k][j])
        failure == [ok |-> FALSE, segments |-> <<>>, chains |-> None]
    IN
    IF ~parsable THEN failure
    ELSE With([k \in 1..Len(command) |-> PipelineSegments(command[k], p.cwd, p.env)],
              LAMBDA chains :
                  IF isWindowsPlatform(p.platform)
                  THEN IF Len(command) = 1 /\ Len(command[1]) = 1
                       THEN [ok |-> TRUE, segments |-> chains[1], chains |-> None]
                       ELSE failure
                  ELSE [ok |-> TRUE, segments |-> Flatten(chains),
                        chains |-> IF Len(command) > 1 THEN Some(chains) ELSE None])

\* ------------------------------------------------------------------------
\* State
\* ------------------------------------------------------------------------
VARIABLES
    processPlatform,     \* process.platform
    pc,                  \* position of the caller / of evaluateShellAllowlist
    params,              \* the arguments of the call in progress or just returned
    chainParts,          \* evaluateShellAllowlist: chainParts (an option)
    partIdx,             \* evaluateShellAllowlist: position of the for loop in chainParts
    allowlistMatches,    \* evaluateShellAllowlist: local accumulator
    segments,            \* evaluateShellAllowlist: local accumulator
    segmentSatisfiedBy,  \* evaluateShellAllowlist: local accumulator
    result,              \* the value returned (an option: empty until the call returns)
    evalLog,             \* the segments evaluated by the call, with their attribution
    firstResult,         \* the result of the preceding identical call (an option)
    scan,                \* validateSafeBinArgv: the loop index i and the positional list
    callLog              \* evaluateShellAllowlist: its calls of the analyzer and the evaluator

vars == <<processPlatform, pc, params, chainParts, partIdx, allowlistMatches, segments,
          segmentSatisfiedBy, result, evalLog, firstResult, scan, callLog>>

locals == <<chainParts, partIdx, allowlistMatches, segments, segmentSatisfiedBy, callLog>>

NoParams == [command |-> <<>>]

\* no scan in progress
NoScan == [i |-> 0, positional |-> <<>>]

Platforms == {"linux", "win32"}

Init ==
    /\ processPlatform \in Platforms
    /\ pc = "idle"
    /\ params = NoParams
    /\ chainParts = None
    /\ partIdx = 0
    /\ allowlistMatches = <<>>
    /\ segments = <<>>
    /\ segmentSatisfiedBy = <<>>
    /\ result = None
    /\ evalLog = <<>>
    /\ firstResult = None
    /\ scan = NoScan
    /\ callLog = <<>>

\* the value a finished call returned
Returned == OrElse(result, [allowlistSatisfied |-> FALSE])

\* ------------------------------------------------------------------------
\* Inputs
\* ------------------------------------------------------------------------
SeqUpTo(S, n) == UNION {[1..k -> S] : k \in 0..n}

\* the ways of cutting a list into consecutive non-empty pieces
RECURSIVE SplitFrom(_, _, _, _)
SplitFrom(list, cuts, start, k) ==
    IF k > Len(list) THEN <<>>
    ELSE IF k = Len(list) \/ k \in cuts
         THEN <<SubSeq(list, start, k)>> \o SplitFrom(list, cuts, k + 1, k + 1)
    ELSE SplitFrom(list, cuts, start, k + 1)

Chainings(list) == {SplitFrom(list, cuts, 1, 1) : cuts \in SUBSET (1..(Len(list) - 1))}

SimpleCommands ==
    {<<"head", "-n", "10">>, <<"rm", "-rf", "/tmp/x">>, <<"mytool">>, <<"echo", "$(id)">>}

CommandLines == UNION {Chainings(list) : list \in SeqUpTo(SimpleCommands, MaxCmds)}

EntryHead == [pattern |-> "/usr/bin/head"]
EntryRm == [pattern |-> "/bin/rm"]
EntryLocal == [pattern |-> "/work/deploy"]

Environments ==
    {[PATH |-> <<"/usr/bin", "/bin">>], [PATH |-> <<"/tmp/evil", "/usr/bin", "/bin">>]}

ShellInputs ==
    [command : CommandLines,
     allowlist : {<<>>, <<EntryHead, EntryRm>>},
     safeBins : {{}, {"head"}},
     cwd : {"/work"},
     env : Environments,
     trustedSafeBinDirs : {{"/usr/bin", "/bin"}},
     skillBins : {{"mytool"}},
     autoAllowSkills : BOOLEAN,
     platform : Platforms]

\* ------------------------------------------------------------------------
\* evaluateShellAllowlist
\* ------------------------------------------------------------------------
analysisFailure ==
    [analysisOk |-> FALSE, allowlistSatisfied |-> FALSE, allowlistMatches |-> <<>>,
     segments |-> <<>>, segmentSatisfiedBy |-> <<>>]

\* the arguments evaluateShellAllowlist hands to analyzeShellCommand
AnalyzeParams(p, command) ==
    [command |-> command, cwd |-> p.cwd, env |-> p.env, platform |-> p.platform]

\* the arguments evaluateShellAllowlist hands to evaluateExecAllowlist
ExecParams(p, analysis) ==
    [analysis |-> analysis, allowlist |-> p.allowlist, safeBins |-> p.safeBins,
     cwd |-> p.cwd, trustedSafeBinDirs |-> p.trustedSafeBinDirs,
     skillBins |-> p.skillBins, autoAllowSkills |-> p.autoAllowSkills]

\* the calls made for one command: analyzeShellCommand, then (its analysis
\* being ok) evaluateExecAllowlist
PartCalls(command, analysis, evaluation) ==
    <<[call |-> "analyze", command |-> command, ok |-> analysis.ok]>>
    \o IF analysis.ok
       THEN <<[call |-> "evaluate", command |-> command, ok |-> evaluation.allowlistSatisfied]>>
       ELSE <<>>

\* the whole command analysed as one unit (chainParts is null)
EvaluateUnchained(p, platformOfProcess) ==
    With(analyzeShellCommand(AnalyzeParams(p, p.command)),
         LAMBDA analysis :
             IF ~analysis.ok
             THEN [returned |-> analysisFailure, trace |-> <<>>,
                   calls |-> PartCalls(p.command, analysis, analysis)]
             ELSE With(evaluateExecAllowlist(ExecParams(p, analysis), platformOfProcess),
                       LAMBDA evaluation :
                           [returned |-> [analysisOk |-> TRUE,
                                          allowlistSatisfied |-> evaluation.allowlistSatisfied,
                                          allowlistMatches |-> evaluation.allowlistMatches,
                                          segments |-> analysis.segments,
                                          segmentSatisfiedBy |-> evaluation.segmentSatisfiedBy],
                            trace |-> evaluation.trace,
                            calls |-> PartCalls(p.command, analysis, evaluation)]))

\* the accumulators outlive the call: a call starts from what the last one left
FreshAccumulators_stale ==
    [allowlistMatches |-> allowlistMatches, segments |-> segments,
     segmentSatisfiedBy |-> segmentSatisfiedBy]

\* the three accumulators declared before the loop over chainParts
FreshAccumulators ==
    [allowlistMatches |-> <<>>, segments |-> <<>>, segmentSatisfiedBy |-> <<>>]

\* entry of evaluateShellAllowlist up to the loop over chainParts
ShellEnter(p) ==
    /\ params' = p
    /\ chainParts' = IF isWindowsPlatform(p.platform) THEN None ELSE splitCommandChain(p.command)
    /\ IF chainParts' = None
       THEN \E whole \in {EvaluateUnchained(p, processPlatform)} :
            /\ result' = Some(whole.returned)
            /\ evalLog' = whole.trace
            /\ callLog' = whole.calls
            /\ pc' = "shell_done"
            /\ partIdx' = 0
            /\ allowlistMatches' = <<>>
            /\ segments' = <<>>
            /\ segmentSatisfiedBy' = <<>>
       ELSE /\ result' = None
            /\ evalLog' = <<>>
            /\ callLog' = <<>>
            /\ pc' = "shell_loop"
            /\ partIdx' = 1
            /\ allowlistMatches' = FreshAccumulators.allowlistMatches
            /\ segments' = FreshAccumulators.segments
            /\ segmentSatisfiedBy' = FreshAccumulators.segmentSatisfiedBy

ShellCall ==
    /\ pc = "idle"
    /\ \E p \in ShellInputs : ShellEnter(p)
    /\ UNCHANGED <<processPlatform, scan, firstResult>>

\* an unsatisfied chain part does not end the loop
ShellLoopStep_continueOnDeny ==
    /\ pc = "shell_loop"
    /\ partIdx <= Len(OrElse(chainParts, <<>>))
    /\ \E analysis \in
           {analyzeShellCommand(AnalyzeParams(params, OrElse(chainParts, <<>>)[partIdx]))} :
       \E evaluation \in {evaluateExecAllowlist(ExecParams(params, analysis), processPlatform)} :
       /\ callLog' = callLog \o PartCalls(OrElse(chainParts, <<>>)[partIdx], analysis, evaluation)
       /\ IF ~analysis.ok
          THEN /\ result' = Some(analysisFailure)
               /\ pc' = "shell_done"
               /\ UNCHANGED <<partIdx, allowlistMatches, segments, segmentSatisfiedBy, evalLog>>
          ELSE /\ segments' = segments \o analysis.segments
               /\ allowlistMatches' = allowlistMatches \o evaluation.allowlistMatches
               /\ segmentSatisfiedBy' = segmentSatisfiedBy \o evaluation.segmentSatisfiedBy
               /\ evalLog' = evalLog \o evaluation.trace
               /\ partIdx' = partIdx + 1
               /\ UNCHANGED <<result, pc>>
    /\ UNCHANGED <<processPlatform, scan, params, chainParts, firstResult>>

\* a chain part the parser rejects is skipped
ShellLoopStep_skipFailedPart ==
    /\ pc = "shell_loop"
    /\ partIdx <= Len(OrElse(chainParts, <<>>))
    /\ \E analysis \in
           {analyzeShellCommand(AnalyzeParams(params, OrElse(chainParts, <<>>)[partIdx]))} :
       \E evaluation \in {evaluateExecAllowlist(ExecParams(params, analysis), processPlatform)} :
       /\ callLog' = callLog \o PartCalls(OrElse(chainParts, <<>>)[partIdx], analysis, evaluation)
       /\ IF ~analysis.ok
          THEN /\ partIdx' = partIdx + 1
               /\ UNCHANGED <<result, pc, allowlistMatches, segments, segmentSatisfiedBy, evalLog>>
          ELSE /\ segments' = segments \o analysis.segments
               /\ allowlistMatches' = allowlistMatches \o evaluation.allowlistMatches
               /\ segmentSatisfiedBy' = segmentSatisfiedBy \o evaluation.segmentSatisfiedBy
               /\ evalLog' = evalLog \o evaluation.trace
               /\ IF ~evaluation.allowlistSatisfied
                  THEN /\ result' = Some([analysisOk |-> TRUE,
                                          allowlistSatisfied |-> FALSE,
                                          allowlistMatches |-> allowlistMatches',
                                          segments |-> segments',
                                          segmentSatisfiedBy |-> segmentSatisfiedBy'])
                       /\ pc' = "shell_done"
                       /\ UNCHANGED partIdx
                  ELSE /\ partIdx' = partIdx + 1
                       /\ UNCHANGED <<result, pc>>
    /\ UNCHANGED <<processPlatform, scan, params, chainParts, firstResult>>

\* a chain part the parser rejects ends the loop with what was accumulated
ShellLoopStep_failWithAccumulated ==
    /\ pc = "shell_loop"
    /\ partIdx <= Len(OrElse(chainParts, <<>>))
    /\ \E analysis \in
           {analyzeShellCommand(AnalyzeParams(params, OrElse(chainParts, <<>>)[partIdx]))} :
       \E evaluation \in {evaluateExecAllowlist(ExecParams(params, analysis), processPlatform)} :
       /\ callLog' = callLog \o PartCalls(OrElse(chainParts, <<>>)[partIdx], analysis, evaluation)
       /\ IF ~analysis.ok
          THEN /\ result' = Some([analysisOk |-> FALSE,
                                  allowlistSatisfied |-> FALSE,
                                  allowlistMatches |-> allowlistMatches,
                                  segments |-> segments,
                                  segmentSatisfiedBy |-> segmentSatisfiedBy])
               /\ pc' = "shell_done"
               /\ UNCHANGED <<partIdx, allowlistMatches, segments, segmentSatisfiedBy, evalLog>>
          ELSE /\ segments' = segments \o analysis.segments
               /\ allowlistMatches' = allowlistMatches \o evaluation.allowlistMatches
               /\ segmentSatisfiedBy' = segmentSatisfiedBy \o evaluation.segmentSatisfiedBy
               /\ evalLog' = evalLog \o evaluation.trace
               /\ IF ~evaluation.allowlistSatisfied
                  THEN /\ result' = Some([analysisOk |-> TRUE,
                                          allowlistSatisfied |-> FALSE,
                                          allowlistMatches |-> allowlistMatches',
                                          segments |-> segments',
                                          segmentSatisfiedBy |-> segmentSatisfiedBy'])
                       /\ pc' = "shell_done"
                       /\ UNCHANGED partIdx
                  ELSE /\ partIdx' = partIdx + 1
                       /\ UNCHANGED <<result, pc>>
    /\ UNCHANGED <<processPlatform, scan, params, chainParts, firstResult>>

\* the segments of a part are pushed only once the part was found satisfied
ShellLoopStep_segmentsAfterEvaluation ==
    /\ pc = "shell_loop"
    /\ partIdx <= Len(OrElse(chainParts, <<>>))
    /\ \E analysis \in
           {analyzeShellCommand(AnalyzeParams(params, OrElse(chainParts, <<>>)[partIdx]))} :
       \E evaluation \in {evaluateExecAllowlist(ExecParams(params, analysis), processPlatform)} :
       /\ callLog' = callLog \o PartCalls(OrElse(chainParts, <<>>)[partIdx], analysis, evaluation)
       /\ IF ~analysis.ok
          THEN /\ result' = Some(analysisFailure)
               /\ pc' = "shell_done"
               /\ UNCHANGED <<partIdx, allowlistMatches, segments, segmentSatisfiedBy, evalLog>>
          ELSE /\ allowlistMatches' = allowlistMatches \o evaluation.allowlistMatches
               /\ segmentSatisfiedBy' = segmentSatisfiedBy \o evaluation.segmentSatisfiedBy
               /\ evalLog' = evalLog \o evaluation.trace
               /\ IF ~evaluation.allowlistSatisfied
                  THEN /\ result' = Some([analysisOk |-> TRUE,
                                          allowlistSatisfied |-> FALSE,
                                          allowlistMatches |-> allowlistMatches',
                                          segments |-> segments,
                                          segmentSatisfiedBy |-> segmentSatisfiedBy'])
                       /\ pc' = "shell_done"
                       /\ UNCHANGED <<partIdx, segments>>
                  ELSE /\ segments' = segments \o analysis.segments
                       /\ partIdx' = partIdx + 1
                       /\ UNCHANGED <<result, pc>>
    /\ UNCHANGED <<processPlatform, scan, params, chainParts, firstResult>>

\* one iteration of the loop over chainParts
ShellLoopStep ==
    /\ pc = "shell_loop"
    /\ partIdx <= Len(OrElse(chainParts, <<>>))
    /\ \E analysis \in
           {analyzeShellCommand(AnalyzeParams(params, OrElse(chainParts, <<>>)[partIdx]))} :
       \E evaluation \in {evaluateExecAllowlist(ExecParams(params, analysis), processPlatform)} :
       /\ callLog' = callLog \o PartCalls(OrElse(chainParts, <<>>)[partIdx], analysis, evaluation)
       /\ IF ~analysis.ok
          THEN /\ result' = Some(analysisFailure)
               /\ pc' = "shell_done"
               /\ UNCHANGED <<partIdx, allowlistMatches, segments, segmentSatisfiedBy, evalLog>>
          ELSE /\ segments' = segments \o analysis.segments
               /\ allowlistMatches' = allowlistMatches \o evaluation.allowlistMatches
               /\ segmentSatisfiedBy' = segmentSatisfiedBy \o evaluation.segmentSatisfiedBy
               /\ evalLog' = evalLog \o evaluation.trace
               /\ IF ~evaluation.allowlistSatisfied
                  THEN /\ result' = Some([analysisOk |-> TRUE,
                                          allowlistSatisfied |-> FALSE,
                                          allowlistMatches |-> allowlistMatches',
                                          segments |-> segments',
                                          segmentSatisfiedBy |-> segmentSatisfiedBy'])
                       /\ pc' = "shell_done"
                       /\ UNCHANGED partIdx
                  ELSE /\ partIdx' = partIdx + 1
                       /\ UNCHANGED <<result, pc>>
    /\ UNCHANGED <<processPlatform, scan, params, chainParts, firstResult>>

\* the loop ran through every chain part
ShellLoopExit ==
    /\ pc = "shell_loop"
    /\ partIdx > Len(OrElse(chainParts, <<>>))
    /\ result' = Some([analysisOk |-> TRUE,
                       allowlistSatisfied |-> TRUE,
                       allowlistMatches |-> allowlistMatches,
                       segments |-> segments,
                       segmentSatisfiedBy |-> segmentSatisfiedBy])
    /\ pc' = "shell_done"
    /\ UNCHANGED <<processPlatform, scan, params, locals, evalLog, firstResult>>

\* the caller calls again with the same arguments
ShellCallAgain ==
    /\ pc = "shell_done"
    /\ firstResult = None
    /\ firstResult' = result
    /\ ShellEnter(params)
    /\ UNCHANGED <<processPlatform, scan>>

\* the caller drops the result of a finished call
Forget ==
    /\ pc' = "idle"
    /\ params' = NoParams
    /\ chainParts' = None
    /\ partIdx' = 0
    /\ allowlistMatches' = <<>>
    /\ segments' = <<>>
    /\ segmentSatisfiedBy' = <<>>
    /\ result' = None
    /\ evalLog' = <<>>
    /\ firstResult' = None
    /\ scan' = NoScan
    /\ callLog' = <<>>
    /\ UNCHANGED processPlatform

ShellReturn == pc = "shell_done" /\ Forget

Next == ShellCall \/ ShellLoopStep \/ ShellLoopExit \/ ShellCallAgain \/ ShellReturn

Spec == Init /\ [][Next]_vars

\* ------------------------------------------------------------------------
\* evaluateExecAllowlist called by the host on an analysis of its own
\* ------------------------------------------------------------------------
Resolution(raw, path, name) ==
    Some([rawExecutable |-> raw, resolvedPath |-> path, executableName |-> name])

SegHead == [argv |-> <<"head", "-n", "10">>,
            resolution |-> Resolution("head", "/usr/bin/head", "head")]
SegRm == [argv |-> <<"rm", "-rf", "/tmp/x">>,
          resolution |-> Resolution("rm", "/bin/rm", "rm")]
SegTool == [argv |-> <<"mytool">>,
            resolution |-> Resolution("mytool", "", "mytool")]
SegLocal == [argv |-> <<"./deploy">>,
             resolution |-> Resolution("./deploy", "", "./deploy")]
SegGrep == [argv |-> <<"grep", "-r", "secret", ".">>,
            resolution |-> Resolution("grep", "/usr/bin/grep", "grep")]

SegmentPool == {SegHead, SegRm, SegTool, SegLocal, SegGrep}

EntryGrep == [pattern |-> "/usr/bin/grep"]

\* an analysis: a list of segments, with or without its cut into chain parts
Analyses ==
    UNION {
        {[ok |-> ok, segments |-> list, chains |-> None] : ok \in BOOLEAN}
        \cup {[ok |-> ok, segments |-> list, chains |-> Some(chains)] :
                 ok \in BOOLEAN, chains \in Chainings(list)}
        : list \in SeqUpTo(SegmentPool, MaxSegs)}

ExecInputs ==
    [analysis : Analyses,
     allowlist : {<<>>, <<EntryHead, EntryRm>>, <<EntryLocal, EntryGrep>>},
     safeBins : {{}, {"head", "grep"}},
     cwd : {"/work"},
     trustedSafeBinDirs : {{"/usr/bin", "/bin"}},
     skillBins : {{}, {"mytool"}},
     autoAllowSkills : BOOLEAN]

\* the fields evaluateExecAllowlist returns
Visible(evaluation) ==
    [allowlistSatisfied |-> evaluation.allowlistSatisfied,
     allowlistMatches |-> evaluation.allowlistMatches,
     segmentSatisfiedBy |-> evaluation.segmentSatisfiedBy]

ExecCall ==
    /\ pc = "idle"
    /\ \E p \in ExecInputs :
       \E evaluation \in {evaluateExecAllowlist(p, processPlatform)} :
          /\ params' = p
          /\ result' = Some(Visible(evaluation))
          /\ evalLog' = evaluation.trace
    /\ pc' = "exec_done"
    /\ UNCHANGED <<processPlatform, scan, locals, firstResult>>

ExecReturn == pc = "exec_done" /\ Forget

NextExec == ExecCall \/ ExecReturn

SpecExec == Init /\ [][NextExec]_vars

\* ------------------------------------------------------------------------
\* isSafeBinUsage called by the host
\* ------------------------------------------------------------------------
GateArgvs ==
    {<<"head", "-n", "10">>, <<"head", "-n", "./etc/passwd">>, <<"head", "notes.txt">>,
     <<"grep", "-e", "foo">>, <<"grep", "-r", "secret", ".">>,
     <<"tr", "x", "y">>, <<"tr">>, <<"cat", "a*.txt">>, <<"cat", "notes.txt">>, <<>>}

GateResolutions ==
    {None,
     Resolution("head", "/usr/bin/head", "head"),
     Resolution("HEAD", "/usr/bin/head", "HEAD"),
     Resolution("head", "/tmp/evil/head", "head"),
     Resolution("head", "", "head"),
     Resolution("grep", "/usr/bin/grep", "grep"),
     Resolution("tr", "/usr/bin/tr", "tr"),
     Resolution("cat", "/bin/cat", "cat"),
     Resolution("", "/usr/bin/head", "")}

GateInputs ==
    [argv : GateArgvs,
     resolution : GateResolutions,
     safeBins : {{}, {"head"}, {"head", "grep", "tr", "cat"}},
     cwd : {"/work"},
     trustedSafeBinDirs : {{}, {"/usr/bin"}, {"/usr/bin", "/bin"}}]

GateCall ==
    /\ pc = "idle"
    /\ \E p \in GateInputs :
          /\ params' = p
          /\ result' = Some(isSafeBinUsage(p, processPlatform))
    /\ pc' = "gate_done"
    /\ UNCHANGED <<processPlatform, scan, locals, evalLog, firstResult>>

GateReturn == pc = "gate_done" /\ Forget

NextGate == GateCall \/ GateReturn

SpecGate == Init /\ [][NextGate]_vars

\* ------------------------------------------------------------------------
\* Properties
\* ------------------------------------------------------------------------
DenyEmpty == [allowlistSatisfied |-> FALSE, allowlistMatches |-> <<>>, segmentSatisfiedBy |-> <<>>]

\* the boolean a finished isSafeBinUsage call returned
ReturnedFlag == OrElse(result, FALSE)

ChainsOf(analysis) == OrElse(analysis.chains, <<>>)

\* what the segment resolves to under the arguments of the call
ResolvesTo(segment) == EvaluateSegment(segment, params, processPlatform).by

HasMatch(segment) ==
    matchAllowlist(params.allowlist, CandidateResolution(segment, params.cwd)) # None

PassesGate(segment) == isSafeBinUsage(GateParams(segment, params), processPlatform)

SkillAllowed(segment) ==
    /\ params.autoAllowSkills = TRUE
    /\ params.skillBins # {}
    /\ ExecutableNameOf(segment.resolution) # ""
    /\ ExecutableNameOf(segment.resolution) \in params.skillBins

\* the chain parts of the command of a finished evaluateShellAllowlist call
Parts == OrElse(chainParts, <<>>)
PartAnalysis(k) == analyzeShellCommand(AnalyzeParams(params, Parts[k]))
PartEvaluation(k) == evaluateExecAllowlist(ExecParams(params, PartAnalysis(k)), processPlatform)

\* C1: evaluateExecAllowlist on an analysis with ok=true, at least one segment
\* and a chains list: when some chain part holds a segment that resolves to
\* none, the result is exactly the empty denial; nothing accumulated from
\* earlier satisfied parts is reported.
C1_ChainDenialDiscardsAccumulated ==
    (/\ pc = "exec_done"
     /\ params.analysis.ok
     /\ Len(params.analysis.segments) > 0
     /\ params.analysis.chains # None
     /\ \E k \in 1..Len(ChainsOf(params.analysis)) :
           \E j \in 1..Len(ChainsOf(params.analysis)[k]) :
              ResolvesTo(ChainsOf(params.analysis)[k][j]) = "none")
    => Returned = DenyEmpty

\* a first chain part satisfied through an allowlist match, a later part
\* unsatisfied, and the empty denial returned
C1_Witness ==
    /\ pc = "exec_done"
    /\ params.analysis.ok
    /\ params.analysis.chains # None
    /\ Len(ChainsOf(params.analysis)) = 2
    /\ Len(evalLog) >= 2
    /\ evalLog[1].by = "allowlist"
    /\ evalLog[Len(evalLog)].by = "none"
    /\ Returned = DenyEmpty

\* C2: evaluateShellAllowlist on a command that splits into chain parts
\* returns allowlistSatisfied=true only if every chain part is analysed with
\* ok=true and evaluates as satisfied.
C2_ChainSatisfiedOnlyIfEveryPart ==
    (/\ pc = "shell_done"
     /\ ~isWindowsPlatform(params.platform)
     /\ chainParts # None
     /\ Returned.allowlistSatisfied)
    => \A k \in 1..Len(Parts) :
          PartAnalysis(k).ok /\ PartEvaluation(k).allowlistSatisfied

\* head -n 10 && rm -rf /tmp/x: the first part passes as a safe bin, the
\* second fails, the whole is denied
C2_Witness ==
    /\ pc = "shell_done"
    /\ ~isWindowsPlatform(params.platform)
    /\ params.command = << << <<"head", "-n", "10">> >>, << <<"rm", "-rf", "/tmp/x">> >> >>
    /\ Len(Parts) = 2
    /\ PartEvaluation(1).allowlistSatisfied
    /\ ~PartEvaluation(2).allowlistSatisfied
    /\ Returned.analysisOk
    /\ ~Returned.allowlistSatisfied
    /\ Returned.segmentSatisfiedBy = <<"safeBins", "none">>

\* C3: when analyzeShellCommand returns ok=false for the whole command (no
\* chain parts) or for any one chain part, evaluateShellAllowlist returns
\* allowlistSatisfied=false.
C3_ParserFailureDenies ==
    (/\ pc = "shell_done"
     /\ \/ chainParts = None /\ ~analyzeShellCommand(AnalyzeParams(params, params.command)).ok
        \/ chainParts # None /\ \E k \in 1..Len(Parts) : ~PartAnalysis(k).ok)
    => ~Returned.allowlistSatisfied

\* a satisfied first part followed by a part the parser rejects
C3_Witness ==
    /\ pc = "shell_done"
    /\ Len(Parts) = 2
    /\ PartAnalysis(1).ok
    /\ PartEvaluation(1).allowlistSatisfied
    /\ ~PartAnalysis(2).ok
    /\ Returned = analysisFailure

\* C4: evaluateExecAllowlist returns the empty denial whenever analysis.ok is
\* false or analysis.segments is empty, and evaluates no segment.
C4_GuardDeniesWithoutEvaluating ==
    (/\ pc = "exec_done"
     /\ ~params.analysis.ok \/ Len(params.analysis.segments) = 0)
    => (Returned = DenyEmpty /\ evalLog = <<>>)

\* ok=false on an analysis whose every segment would have been attributed
C4_Witness ==
    /\ pc = "exec_done"
    /\ ~params.analysis.ok
    /\ params.analysis.chains # None
    /\ Len(params.analysis.segments) > 1
    /\ \A j \in 1..Len(params.analysis.segments) :
          ResolvesTo(params.analysis.segments[j]) # "none"
    /\ Returned = DenyEmpty
    /\ evalLog = <<>>

\* the conditions of the safe-bin gate other than the platform
GateConditions(p) ==
    /\ p.safeBins # {}
    /\ ExecutableNameOf(p.resolution) # ""
    /\ ToLowerCase(ExecutableNameOf(p.resolution)) \in p.safeBins
    /\ ResolvedPathOf(p.resolution) # ""
    /\ isTrustedSafeBinPath(ResolvedPathOf(p.resolution), p.trustedSafeBinDirs)
    /\ validateSafeBinArgv(SubSeq(p.argv, 2, Len(p.argv)),
                           IF ToLowerCase(ExecutableNameOf(p.resolution))
                                  \in DOMAIN SAFE_BIN_PROFILES
                           THEN SAFE_BIN_PROFILES[ToLowerCase(ExecutableNameOf(p.resolution))]
                           ELSE SAFE_BIN_GENERIC_PROFILE)

\* C5: isSafeBinUsage returns false whenever the platform of the process is
\* Windows, whatever its arguments.
C5_GateClosedOnWindows ==
    (pc = "gate_done" /\ isWindowsPlatform(processPlatform)) => ReturnedFlag = FALSE

\* Windows, with a matching bin name, a trusted path and a valid argv
C5_Witness ==
    /\ pc = "gate_done"
    /\ isWindowsPlatform(processPlatform)
    /\ GateConditions(params)
    /\ ReturnedFlag = FALSE

\* C6: off Windows isSafeBinUsage returns true if and only if safeBins is
\* non-empty, the lowercased executable name is in safeBins, the resolved
\* path is present and trusted, and argv without argv[0] passes
\* validateSafeBinArgv against the profile of the lowercased name (the
\* generic profile when none is registered).
C6_GateExactConditions ==
    (pc = "gate_done" /\ ~isWindowsPlatform(processPlatform))
    => (ReturnedFlag = TRUE <=> GateConditions(params))

\* accepted through the case-insensitive name match
C6_Witness ==
    /\ pc = "gate_done"
    /\ ~isWindowsPlatform(processPlatform)
    /\ ExecutableNameOf(params.resolution) = "HEAD"
    /\ ReturnedFlag = TRUE

\* C7: every evaluated segment is attributed exactly one of allowlist,
\* safeBins, skills, none by strict priority: allowlist when matchAllowlist
\* returns an entry, else safeBins when isSafeBinUsage holds, else skills when
\* the skill allowance applies, else none.
C7_AttributionByPriority ==
    pc = "exec_done" =>
        \A i \in 1..Len(evalLog) :
            /\ evalLog[i].by \in {"allowlist", "safeBins", "skills", "none"}
            /\ evalLog[i].by =
                  IF HasMatch(evalLog[i].segment) THEN "allowlist"
                  ELSE IF PassesGate(evalLog[i].segment) THEN "safeBins"
                  ELSE IF SkillAllowed(evalLog[i].segment) THEN "skills"
                  ELSE "none"

\* a segment with an allowlist match that also passes the safe-bin gate
C7_Witness ==
    /\ pc = "exec_done"
    /\ \E i \in 1..Len(evalLog) :
          /\ HasMatch(evalLog[i].segment)
          /\ PassesGate(evalLog[i].segment)
          /\ evalLog[i].by = "allowlist"

\* the segment lists evaluateExecAllowlist evaluates
EvaluatedLists(analysis) ==
    IF analysis.chains # None THEN ChainsOf(analysis) ELSE <<analysis.segments>>

\* C8: evaluateExecAllowlist returns allowlistSatisfied=true only if every
\* segment of every chain part (of analysis.segments when chains is absent)
\* has an allowlist match, passes the safe-bin gate or is skill-allowed.
C8_SatisfiedOnlyIfEverySegment ==
    (pc = "exec_done" /\ Returned.allowlistSatisfied)
    => \A k \in 1..Len(EvaluatedLists(params.analysis)) :
          \A j \in 1..Len(EvaluatedLists(params.analysis)[k]) :
             LET segment == EvaluatedLists(params.analysis)[k][j] IN
             HasMatch(segment) \/ PassesGate(segment) \/ SkillAllowed(segment)

\* two chain parts satisfied, by the three sources
C8_Witness ==
    /\ pc = "exec_done"
    /\ Returned.allowlistSatisfied
    /\ params.analysis.chains # None
    /\ Len(ChainsOf(params.analysis)) = 2
    /\ Returned.segmentSatisfiedBy = <<"skills", "safeBins", "allowlist">>

C10_NoSafeBinsForWindowsPlatform ==
    (pc = "shell_done" /\ isWindowsPlatform(params.platform))
    => \A i \in 1..Len(Returned.segmentSatisfiedBy) :
          Returned.segmentSatisfiedBy[i] # "safeBins"

\* the first chain part the parser rejects is part k, after k - 1 parts that
\* were analysed and evaluated as satisfied
FailsAfterEarlierParts(k) ==
    /\ k \in 2..Len(Parts)
    /\ ~PartAnalysis(k).ok
    /\ \A j \in 1..(k - 1) : PartAnalysis(j).ok /\ PartEvaluation(j).allowlistSatisfied

\* the diagnostics of the chain parts 1..k, in order
RECURSIVE SegmentsUpTo(_)
SegmentsUpTo(k) ==
    IF k = 0 THEN <<>> ELSE SegmentsUpTo(k - 1) \o PartAnalysis(k).segments

RECURSIVE MatchesUpTo(_)
MatchesUpTo(k) ==
    IF k = 0 THEN <<>> ELSE MatchesUpTo(k - 1) \o PartEvaluation(k).allowlistMatches

RECURSIVE AttributionsUpTo(_)
AttributionsUpTo(k) ==
    IF k = 0 THEN <<>> ELSE AttributionsUpTo(k - 1) \o PartEvaluation(k).segmentSatisfiedBy

\* C11 (as stated): when the analysis of a chain part fails after earlier
\* parts were analysed and evaluated, evaluateShellAllowlist returns
\* allowlistSatisfied=false together with the segments, allowlist matches and
\* attributions of the earlier parts.
C11_FailureKeepsDiagnostics ==
    pc = "shell_done" =>
        \A k \in 1..Len(Parts) :
            FailsAfterEarlierParts(k) =>
                /\ ~Returned.allowlistSatisfied
                /\ Returned.segments = SegmentsUpTo(k - 1)
                /\ Returned.allowlistMatches = MatchesUpTo(k - 1)
                /\ Returned.segmentSatisfiedBy = AttributionsUpTo(k - 1)

\* C11 (amended): when the analysis of a chain part fails after earlier parts
\* were analysed and evaluated, evaluateShellAllowlist returns
\* analysisOk=false and allowlistSatisfied=false with empty segments,
\* allowlistMatches and segmentSatisfiedBy: the diagnostics of the earlier
\* parts are dropped.
C11_FailureDropsDiagnostics ==
    pc = "shell_done" =>
        \A k \in 1..Len(Parts) :
            FailsAfterEarlierParts(k) =>
                /\ Returned.analysisOk = FALSE
                /\ Returned.allowlistSatisfied = FALSE
                /\ Returned.segments = <<>>
                /\ Returned.allowlistMatches = <<>>
                /\ Returned.segmentSatisfiedBy = <<>>

\* the second part fails after a first part that left a segment, a match and
\* an attribution in the accumulators; none of them is in the result
C11_Witness ==
    /\ pc = "shell_done"
    /\ FailsAfterEarlierParts(2)
    /\ Len(SegmentsUpTo(1)) > 0
    /\ Len(MatchesUpTo(1)) > 0
    /\ segments = SegmentsUpTo(1)
    /\ allowlistMatches = MatchesUpTo(1)
    /\ segmentSatisfiedBy = AttributionsUpTo(1)
    /\ Returned.segments = <<>>
    /\ Returned.allowlistMatches = <<>>

\* ------------------------------------------------------------------------
\* normalizeSafeBins / resolveSafeBins called by the configuration loader.
\* A JavaScript value handed in as entries is a record: kind says what it
\* is, items holds the elements when it is an array.
\* ------------------------------------------------------------------------
\* entries of a configured safe-bin list
MaxEntries == 3

JsUndefined == [kind |-> "undefined", items |-> <<>>]
JsNull == [kind |-> "null", items |-> <<>>]
JsNotArray == [kind |-> "string", items |-> <<>>]
JsArray(items) == [kind |-> "array", items |-> items]

DEFAULT_SAFE_BINS == <<"jq", "grep", "cut", "sort", "uniq", "head", "tail", "tr", "wc">>

\* the entries are lowercased but not trimmed
normalizeSafeBins_noTrim(entries) ==
    IF entries.kind # "array" THEN {}
    ELSE {entry \in {ToLowerCase(entries.items[i]) : i \in DOMAIN entries.items} :
              Len(entry) > 0}

normalizeSafeBins(entries) ==
    IF entries.kind # "array" THEN {}
    ELSE {entry \in {ToLowerCase(Trim(entries.items[i])) : i \in DOMAIN entries.items} :
              Len(entry) > 0}

\* null falls back to the defaults as undefined does
resolveSafeBins_nullDefaults(entries) ==
    IF entries.kind \in {"undefined", "null"}
    THEN normalizeSafeBins(JsArray(DEFAULT_SAFE_BINS))
    ELSE normalizeSafeBins(entries)

resolveSafeBins(entries) ==
    IF entries.kind = "undefined"
    THEN normalizeSafeBins(JsArray(DEFAULT_SAFE_BINS))
    ELSE normalizeSafeBins(IF entries.kind = "null" THEN JsArray(<<>>) ELSE entries)

BinEntries == {"JQ", " grep ", "", "jq", "\tHead\n", "  ", "my-tool"}

BinLists == {JsArray(items) : items \in SeqUpTo(BinEntries, MaxEntries)}

NormalizeCall ==
    /\ pc = "idle"
    /\ \E entries \in BinLists \cup {JsUndefined, JsNull, JsNotArray} :
          /\ params' = [entries |-> entries]
          /\ result' = Some(normalizeSafeBins(entries))
    /\ pc' = "normalize_done"
    /\ UNCHANGED <<processPlatform, scan, locals, evalLog, firstResult>>

ResolveCall ==
    /\ pc = "idle"
    /\ \E entries \in BinLists \cup {JsUndefined, JsNull} :
          /\ params' = [entries |-> entries]
          /\ result' = Some(resolveSafeBins(entries))
    /\ pc' = "resolve_done"
    /\ UNCHANGED <<processPlatform, scan, locals, evalLog, firstResult>>

BinsReturn == pc \in {"normalize_done", "resolve_done"} /\ Forget

NextBins == NormalizeCall \/ ResolveCall \/ BinsReturn

SpecBins == Init /\ [][NextBins]_vars

\* the set a finished normalizeSafeBins / resolveSafeBins call returned
ReturnedSet == OrElse(result, {})

\* the elements of a set as an array, in some order
RECURSIVE ArrayFrom(_)
ArrayFrom(S) ==
    IF S = {} THEN <<>>
    ELSE LET x == CHOOSE y \in S : TRUE IN <<x>> \o ArrayFrom(S \ {x})

\* set is exactly the trimmed, lowercased, non-empty forms of items
IsNormalFormOf(set, items) ==
    /\ \A i \in DOMAIN items :
          Trim(items[i]) # "" => ToLowerCase(Trim(items[i])) \in set
    /\ \A name \in set :
          /\ name # ""
          /\ \E i \in DOMAIN items : name = ToLowerCase(Trim(items[i]))

\* C12: normalizeSafeBins returns exactly the set of trimmed, lowercased,
\* non-empty forms of the entries, the empty set for absent or non-array
\* input, and normalising the elements of its result gives the same set.
C12_NormalizeExactAndIdempotent ==
    pc = "normalize_done" =>
        /\ params.entries.kind = "array" => IsNormalFormOf(ReturnedSet, params.entries.items)
        /\ params.entries.kind # "array" => ReturnedSet = {}
        /\ normalizeSafeBins(JsArray(ArrayFrom(ReturnedSet))) = ReturnedSet

\* ["JQ", " grep ", ""] gives {"jq", "grep"}
C12_Witness ==
    /\ pc = "normalize_done"
    /\ params.entries = JsArray(<<"JQ", " grep ", "">>)
    /\ ReturnedSet = {"jq", "grep"}

\* C13: resolveSafeBins returns normalizeSafeBins(DEFAULT_SAFE_BINS) only for
\* undefined; for null and for [] it returns the empty set, and for any other
\* list the normal form of that list, with no default mixed in.
C13_ResolveDefaultsOnlyForUndefined ==
    pc = "resolve_done" =>
        /\ params.entries.kind = "undefined"
              => ReturnedSet = normalizeSafeBins(JsArray(DEFAULT_SAFE_BINS))
        /\ params.entries.kind = "null" => ReturnedSet = {}
        /\ params.entries.kind = "array"
              => /\ ReturnedSet = normalizeSafeBins(params.entries)
                 /\ IsNormalFormOf(ReturnedSet, params.entries.items)
                 /\ params.entries.items = <<>> => ReturnedSet = {}

\* null opts out of the non-empty defaults
C13_Witness ==
    /\ pc = "resolve_done"
    /\ params.entries = JsNull
    /\ ReturnedSet = {}
    /\ resolveSafeBins(JsUndefined) # {}

\* ------------------------------------------------------------------------
\* validateSafeBinArgv called on an argv of its own
\* ------------------------------------------------------------------------
\* tokens of an args list handed to validateSafeBinArgv
MaxArgs == 3

ArgTokens ==
    {"x", "", "-", "--", "a*.txt", "./etc/passwd",
     "--lines", "--output=./p", "--lines=5", "--files0-from", "--a*",
     "-n", "-no", "-n./p", "-*n", "-r", "-ir", "-o", "-er"}

\* executable names whose profile is used ("mytool" has none: the generic one)
ArgvBins == {"head", "sort", "grep", "tr", "mytool"}

ArgvInputs ==
    [args : SeqUpTo(ArgTokens, MaxArgs), bin : ArgvBins]

ArgvCall ==
    /\ pc = "idle"
    /\ \E p \in ArgvInputs :
          /\ params' = [args |-> p.args, bin |-> p.bin, profile |-> ProfileFor(p.bin)]
          /\ result' = Some(validateSafeBinArgv(p.args, ProfileFor(p.bin)))
          /\ evalLog' = ScanOf(p.args, ProfileFor(p.bin)).roles
    /\ pc' = "argv_done"
    /\ UNCHANGED <<processPlatform, scan, locals, firstResult>>

ArgvReturn == pc = "argv_done" /\ Forget

NextArgv == ArgvCall \/ ArgvReturn

SpecArgv == Init /\ [][NextArgv]_vars

\* the scan of validateSafeBinArgv taken one iteration of its loop at a time
ScanTokens == {"x", "", "-", "--", "a*.txt", "--lines", "--lines=5", "-n"}

ScanInputs == [args : SeqUpTo(ScanTokens, MaxArgs), bin : {"head", "tr", "mytool"}]

ScanCall ==
    /\ pc = "idle"
    /\ \E p \in ScanInputs :
          params' = [args |-> p.args, bin |-> p.bin, profile |-> ProfileFor(p.bin)]
    /\ scan' = [i |-> 1, positional |-> <<>>]
    /\ pc' = "argv_loop"
    /\ UNCHANGED <<processPlatform, locals, result, evalLog, firstResult>>

\* an empty token leaves the loop index where it is
ScanStep_emptyNotSkipped ==
    /\ pc = "argv_loop"
    /\ scan.i <= Len(params.args)
    /\ \E step \in {ScanIteration(params.args, scan.i, scan.positional,
                                  OrElse(params.profile.valueFlags, NO_FLAGS),
                                  OrElse(params.profile.blockedFlags, NO_FLAGS))} :
          /\ evalLog' = evalLog \o step.roles
          /\ IF ~step.ok
             THEN /\ result' = Some(FALSE)
                  /\ pc' = "argv_done"
                  /\ UNCHANGED scan
             ELSE /\ scan' = [i |-> IF params.args[scan.i] = "" THEN scan.i ELSE step.next,
                              positional |-> step.positional]
                  /\ UNCHANGED <<result, pc>>
    /\ UNCHANGED <<processPlatform, params, locals, firstResult>>

\* one iteration of the loop over args
ScanStep ==
    /\ pc = "argv_loop"
    /\ scan.i <= Len(params.args)
    /\ \E step \in {ScanIteration(params.args, scan.i, scan.positional,
                                  OrElse(params.profile.valueFlags, NO_FLAGS),
                                  OrElse(params.profile.blockedFlags, NO_FLAGS))} :
          /\ evalLog' = evalLog \o step.roles
          /\ IF ~step.ok
             THEN /\ result' = Some(FALSE)
                  /\ pc' = "argv_done"
                  /\ UNCHANGED scan
             ELSE /\ scan' = [i |-> step.next, positional |-> step.positional]
                  /\ UNCHANGED <<result, pc>>
    /\ UNCHANGED <<processPlatform, params, locals, firstResult>>

\* the loop ran through args: the positional bounds decide
ScanExit ==
    /\ pc = "argv_loop"
    /\ scan.i > Len(params.args)
    /\ result' = Some(WithinPositionalBounds(scan.positional, params.profile))
    /\ pc' = "argv_done"
    /\ UNCHANGED <<processPlatform, params, locals, evalLog, firstResult, scan>>

\* evaluateShellAllowlist called with the standard environment
ShellCallPlain ==
    /\ pc = "idle"
    /\ \E p \in {q \in ShellInputs : q.env.PATH = <<"/usr/bin", "/bin">> /\ ~q.autoAllowSkills} :
          ShellEnter(p)
    /\ UNCHANGED <<processPlatform, scan, firstResult>>

\* both loops run to their end: a call in progress is not abandoned
NextTerm ==
    \/ ScanCall \/ ScanStep \/ ScanExit \/ ArgvReturn
    \/ ShellCallPlain \/ ShellLoopStep \/ ShellLoopExit \/ ShellReturn

SpecTerm ==
    /\ Init
    /\ [][NextTerm]_vars
    /\ WF_vars(ScanStep) /\ WF_vars(ScanExit)
    /\ WF_vars(ShellLoopStep) /\ WF_vars(ShellLoopExit)

\* the name of a long flag: the token up to its "="
FlagName(token) ==
    IF IndexOf(token, "=") > 0 THEN SliceTo(token, IndexOf(token, "=")) ELSE token

ValueFlagsOf(profile) == OrElse(profile.valueFlags, NO_FLAGS)
BlockedFlagsOf(profile) == OrElse(profile.blockedFlags, NO_FLAGS)

\* C14: validateSafeBinArgv returns false whenever a token read as a flag
\* (before any "--", not consumed as a value) is a long flag --name or
\* --name=value whose name is in blockedFlags, also when the name is in
\* valueFlags and the value is safe.
C14_BlockedLongFlagRejects ==
    pc = "argv_done" =>
        \A k \in DOMAIN evalLog :
            (/\ evalLog[k].role = "long"
             /\ FlagName(evalLog[k].text) \in BlockedFlagsOf(params.profile))
            => ReturnedFlag = FALSE

\* sort --files0-from x: blocked although the flag takes a value and x is
\* safe; the same args pass once the flag is not blocked
C14_Witness ==
    /\ pc = "argv_done"
    /\ params.bin = "sort"
    /\ params.args = <<"--files0-from", "x">>
    /\ "--files0-from" \in ValueFlagsOf(params.profile)
    /\ isSafeLiteralToken("x")
    /\ validateSafeBinArgv(params.args, [params.profile EXCEPT !.blockedFlags = None])
    /\ ReturnedFlag = FALSE

\* entry k of the scan is a long flag the scan did not reject as blocked
ReadAsLongFlag(k) == evalLog[k].role = "long" /\ evalLog[k].ok

HasInlineValue(token) == IndexOf(token, "=") > 0
InlineValueOf(token) == SliceFrom(token, IndexOf(token, "=") + 1)

\* a long flag with an inline value: the value alone is tested, the next
\* token is read on its own
InlineValueRule ==
    \A k \in DOMAIN evalLog :
        (ReadAsLongFlag(k) /\ HasInlineValue(evalLog[k].text)) =>
            /\ k + 1 \in DOMAIN evalLog
            /\ evalLog[k + 1].role = "inline"
            /\ evalLog[k + 1].index = evalLog[k].index
            /\ evalLog[k + 1].ok = isSafeLiteralToken(InlineValueOf(evalLog[k].text))
            /\ ReturnedFlag = TRUE => evalLog[k + 1].ok
            /\ \A m \in DOMAIN evalLog :
                  evalLog[m].index = evalLog[k].index + 1
                      => evalLog[m].role \notin {"value", "missing"}

\* a bare long flag in valueFlags: the scan goes on exactly when the next
\* token exists (and, if nonEmpty, is not the empty string) and is a safe
\* literal; that token is read as the value and as nothing else
BareValueFlagRule(nonEmpty) ==
    \A k \in DOMAIN evalLog :
        (/\ ReadAsLongFlag(k)
         /\ ~HasInlineValue(evalLog[k].text)
         /\ evalLog[k].text \in ValueFlagsOf(params.profile)) =>
            /\ k + 1 \in DOMAIN evalLog
            /\ evalLog[k + 1].index = evalLog[k].index + 1
            /\ evalLog[k + 1].role \in {"value", "missing"}
            /\ evalLog[k + 1].ok <=>
                  /\ evalLog[k].index + 1 <= Len(params.args)
                  /\ nonEmpty => params.args[evalLog[k].index + 1] # ""
                  /\ isSafeLiteralToken(params.args[evalLog[k].index + 1])
            /\ ReturnedFlag = TRUE => evalLog[k + 1].ok
            /\ \A m \in DOMAIN evalLog :
                  evalLog[m].index = evalLog[k].index + 1 => m = k + 1

\* a bare long flag outside valueFlags: the next token is not its value
PlainLongFlagRule ==
    \A k \in DOMAIN evalLog :
        (/\ ReadAsLongFlag(k)
         /\ ~HasInlineValue(evalLog[k].text)
         /\ evalLog[k].text \notin ValueFlagsOf(params.profile)) =>
            /\ k + 1 \in DOMAIN evalLog => evalLog[k + 1].index = evalLog[k].index + 1
            /\ \A m \in DOMAIN evalLog :
                  evalLog[m].index = evalLog[k].index + 1
                      => evalLog[m].role \notin {"value", "missing"}

HeadExamples ==
    /\ validateSafeBinArgv(<<"-n", "5">>, SAFE_BIN_PROFILES["head"])
    /\ ~validateSafeBinArgv(<<"-n", "./etc/passwd">>, SAFE_BIN_PROFILES["head"])

CountedPositional == Len(ScanOf(params.args, params.profile).positional)

\* the tokens the scan read as positional and went on from
PositionalReads == {k \in DOMAIN evalLog : evalLog[k].role = "positional" /\ evalLog[k].ok}

\* C16: validateSafeBinArgv returns false whenever the number of tokens
\* counted as positional is below minPositional (default 0) or above a bounded
\* maxPositional; only tokens read as positional are counted (not flag
\* values, bare "-" or flags); the generic profile imposes no bound; tr
\* ["x","y"] passes and tr [] fails.
C16_PositionalBounds ==
    pc = "argv_done" =>
        /\ CountedPositional = Cardinality(PositionalReads)
        /\ CountedPositional < OrElse(params.profile.minPositional, 0) => ReturnedFlag = FALSE
        /\ (/\ params.profile.maxPositional # None
            /\ CountedPositional > OrElse(params.profile.maxPositional, 0))
              => ReturnedFlag = FALSE
        /\ params.profile = SAFE_BIN_GENERIC_PROFILE
              => ReturnedFlag = ScanOf(params.args, params.profile).ok
        /\ validateSafeBinArgv(<<"x", "y">>, SAFE_BIN_PROFILES["tr"])
        /\ ~validateSafeBinArgv(<<>>, SAFE_BIN_PROFILES["tr"])

\* tr - --lines: the bare "-" and the flag are not counted, so the call
\* fails below the minimum of one, while the same tokens pass the generic
\* profile
C16_Witness ==
    /\ pc = "argv_done"
    /\ params.bin = "tr"
    /\ params.args = <<"-", "--lines">>
    /\ ScanOf(params.args, params.profile).ok
    /\ CountedPositional = 0
    /\ ReturnedFlag = FALSE
    /\ validateSafeBinArgv(params.args, SAFE_BIN_GENERIC_PROFILE)

\* neither glob-like nor path-like
PlainLiteral(text) == ~hasGlobToken(text) /\ ~isPathLikeToken(text)

\* C17: validateSafeBinArgv returns true only if every token counted as
\* positional (before or after "--") and every value consumed by a value-flag
\* (next token or inline, long or short) has no glob character and is not
\* path-like; a*.txt is rejected as a positional under every profile.
C17_PositionalsAndValuesAreLiterals ==
    (pc = "argv_done" /\ ReturnedFlag = TRUE) =>
        /\ \A k \in DOMAIN evalLog :
              evalLog[k].role \in {"positional", "value", "inline"}
                  => isSafeLiteralToken(evalLog[k].text) /\ PlainLiteral(evalLog[k].text)
        /\ \A j \in 1..CountedPositional :
              PlainLiteral(ScanOf(params.args, params.profile).positional[j])
        /\ \A i \in DOMAIN params.args :
              ~StartsWith(params.args[i], "-") => PlainLiteral(params.args[i])
        /\ \A bin \in ArgvBins : ~validateSafeBinArgv(<<"a*.txt">>, ProfileFor(bin))

\* tr x -- x passes with a positional on each side of the terminator; with a
\* glob or a path after the terminator it fails
C17_Witness ==
    /\ pc = "argv_done"
    /\ params.bin = "tr"
    /\ params.args = <<"x", "--", "x">>
    /\ CountedPositional = 2
    /\ ReturnedFlag = TRUE
    /\ ~validateSafeBinArgv(<<"x", "--", "a*.txt">>, params.profile)
    /\ ~validateSafeBinArgv(<<"x", "--", "./etc/passwd">>, params.profile)

\* ------------------------------------------------------------------------
\* The host calls either entry point of the evaluator
\* ------------------------------------------------------------------------
NextEval == Next \/ NextExec

SpecEval == Init /\ [][NextEval]_vars

\* the segments handed to the evaluator by the finished call, in the order
\* they are evaluated
SegmentsHandedIn ==
    IF pc = "exec_done" THEN Flatten(EvaluatedLists(params.analysis))
    ELSE IF chainParts = None
         THEN analyzeShellCommand(AnalyzeParams(params, params.command)).segments
    ELSE SegmentsUpTo(Len(Parts))

TokenReads == {k \in DOMAIN evalLog : evalLog[k].role \notin {"inline", "missing"}}

\* a call in progress
InLoop == pc \in {"argv_loop", "shell_loop"}

\* a call that returned a boolean decision
Decided ==
    \/ pc = "argv_done" /\ result # None /\ ReturnedFlag \in BOOLEAN
    \/ pc = "shell_done" /\ result # None /\ Returned.allowlistSatisfied \in BOOLEAN

\* C19: every call terminates in a decision: the scan of validateSafeBinArgv
\* ends for every args list, its index strictly advancing and each token
\* read at most once, and the loop of evaluateShellAllowlist over the chain
\* parts ends, each call returning a boolean.
C19_Terminates ==
    /\ InLoop ~> Decided
    /\ [][/\ (pc = "argv_loop" /\ pc' = "argv_loop") => scan'.i > scan.i
          /\ (pc = "shell_loop" /\ pc' = "shell_loop") => partIdx' > partIdx]_vars
    /\ [](pc = "argv_done" =>
            \A k, m \in TokenReads :
                /\ evalLog[k].index \in 1..Len(params.args)
                /\ k < m => evalLog[k].index < evalLog[m].index)

\* a scan that read three tokens in two iterations and returned true
C19_Witness ==
    /\ pc = "argv_done"
    /\ params.bin = "head"
    /\ params.args = <<"", "-n", "x">>
    /\ scan.i = 4
    /\ Cardinality(TokenReads) = 3
    /\ ReturnedFlag = TRUE

\* C20: glob hardening: validateSafeBinArgv returns false whenever any token
\* of args contains one of the glob characters * ? [ ], whether the token is
\* a positional, a flag value, a long flag or a short-flag cluster.
C20_GlobTokenRejected ==
    (/\ pc = "argv_done"
     /\ \E i \in DOMAIN params.args : hasGlobToken(params.args[i]))
    => ReturnedFlag = FALSE

\* the positions (from 2) of the characters of a cluster whose flag -x is in
\* the given set
FlagPositions(token, flags) ==
    {j \in 2..Len(token) : ("-" \o CharAt(token, j)) \in flags}

Lowest(S) == CHOOSE j \in S : \A m \in S : j <= m

\* the cluster is rejected for a blocked flag: a blocked character stands
\* no later than the first value-flag character
BlockedInCluster(token, profile) ==
    /\ FlagPositions(token, BlockedFlagsOf(profile)) # {}
    /\ \/ FlagPositions(token, ValueFlagsOf(profile)) = {}
       \/ Lowest(FlagPositions(token, BlockedFlagsOf(profile)))
              <= Lowest(FlagPositions(token, ValueFlagsOf(profile)))

\* the remainder of the cluster behind its first value-flag character
ClusterRemainder(token, profile) ==
    SubSeq(token, Lowest(FlagPositions(token, ValueFlagsOf(profile))) + 1, Len(token))

\* C21: short-flag cluster rule: the characters behind the "-" are read left
\* to right as flags -x; a blocked flag rejects the token unless a value-flag
\* character stands before it; the first value-flag character takes the
\* non-empty remainder of the cluster as its value, else the next token, which
\* must exist, be non-empty and a safe literal, and the cluster ends there; a
\* cluster without a value-flag character that holds a glob character is
\* rejected.  grep -r, grep -ir and sort -o are rejected.
C21_ShortClusterRule ==
    pc = "argv_done" =>
        /\ \A k \in DOMAIN evalLog :
              evalLog[k].role = "cluster" =>
                  LET token == evalLog[k].text
                      index == evalLog[k].index
                  IN
                  IF BlockedInCluster(token, params.profile)
                  THEN /\ ~evalLog[k].ok
                       /\ k = Len(evalLog)
                       /\ ReturnedFlag = FALSE
                  ELSE IF FlagPositions(token, ValueFlagsOf(params.profile)) = {}
                       THEN /\ evalLog[k].ok = ~hasGlobToken(token)
                            /\ hasGlobToken(token) => ReturnedFlag = FALSE
                  ELSE /\ evalLog[k].ok
                       /\ k < Len(evalLog)
                       /\ IF ClusterRemainder(token, params.profile) # ""
                          THEN evalLog[k + 1] =
                                   Role(index, "inline", ClusterRemainder(token, params.profile),
                                        isSafeLiteralToken(ClusterRemainder(token, params.profile)))
                          ELSE IF index = Len(params.args)
                               THEN evalLog[k + 1] = Role(index + 1, "missing", "", FALSE)
                          ELSE evalLog[k + 1] =
                                   Role(index + 1, "value", params.args[index + 1],
                                        /\ params.args[index + 1] # ""
                                        /\ isSafeLiteralToken(params.args[index + 1]))
                       /\ ~evalLog[k + 1].ok => ReturnedFlag = FALSE
                       /\ (evalLog[k + 1].ok /\ k + 1 < Len(evalLog)) =>
                              evalLog[k + 2].index = evalLog[k + 1].index + 1
        /\ (params.bin = "grep" /\ params.args \in {<<"-r">>, <<"-ir">>}) => ReturnedFlag = FALSE
        /\ (params.bin = "sort" /\ params.args = <<"-o">>) => ReturnedFlag = FALSE

\* grep -er x: the value-flag -e took "r" as its value, the blocked -r behind
\* it was not read as a flag, and the call went on to accept
C21_Witness ==
    /\ pc = "argv_done"
    /\ params.bin = "grep"
    /\ params.args = <<"-er", "x">>
    /\ evalLog[2] = Role(1, "inline", "r", TRUE)
    /\ ReturnedFlag = TRUE

\* the entries of the log behind entry k
ReadsBehind(k) == (k + 1)..Len(evalLog)

\* the positional bounds of a profile, for a number of positionals
BoundsAdmit(count, profile) ==
    /\ count >= OrElse(profile.minPositional, 0)
    /\ profile.maxPositional # None => count <= OrElse(profile.maxPositional, 0)

\* C22: the first "--" in flag position ends flag parsing: every later token
\* other than "" and "-" is tested as a safe literal and counted as
\* positional, none is read as a flag (a blocked flag behind "--" is not
\* rejected as blocked, a value-flag behind "--" consumes nothing), the
\* positional bounds then apply to the total count, and under a profile with
\* maxPositional 0 any such token causes rejection.
C22_TerminatorEndsFlagParsing ==
    pc = "argv_done" =>
        \A k \in DOMAIN evalLog :
            evalLog[k].role = "terminator" =>
                /\ \A m \in ReadsBehind(k) :
                      /\ evalLog[m].index = evalLog[k].index + (m - k)
                      /\ evalLog[m].text = params.args[evalLog[m].index]
                      /\ IF evalLog[m].text \in {"", "-"}
                         THEN evalLog[m].role = "skip" /\ evalLog[m].ok
                         ELSE /\ evalLog[m].role = "positional"
                              /\ evalLog[m].ok = isSafeLiteralToken(evalLog[m].text)
                /\ \/ Len(evalLog) - k = Len(params.args) - evalLog[k].index
                   \/ ~evalLog[Len(evalLog)].ok
                /\ ReturnedFlag =
                       (/\ \A m \in ReadsBehind(k) : evalLog[m].ok
                        /\ BoundsAdmit(Cardinality(PositionalReads), params.profile))
                /\ (/\ params.profile.maxPositional = Some(0)
                    /\ \E i \in (evalLog[k].index + 1)..Len(params.args) :
                          params.args[i] \notin {"", "-"})
                      => ReturnedFlag = FALSE

\* grep -- -r -: the blocked flag behind the terminator is counted as the one
\* positional grep admits and the call passes, while grep -r fails
C22_Witness ==
    /\ pc = "argv_done"
    /\ params.bin = "grep"
    /\ params.args = <<"--", "-r", "-">>
    /\ evalLog = <<Role(1, "terminator", "--", TRUE), Role(2, "positional", "-r", TRUE),
                   Role(3, "skip", "-", TRUE)>>
    /\ ReturnedFlag = TRUE
    /\ ~validateSafeBinArgv(<<"-r">>, params.profile)

NotBareDash(token) == token # "-"

\* args with every bare "-" token removed
WithoutBareDash(args) == SelectSeq(args, NotBareDash)

\* a bare "-" was taken as the value of the value-flag before it
DashTakenAsValue ==
    \E k \in DOMAIN evalLog : evalLog[k].role = "value" /\ evalLog[k].text = "-"

\* a bare "-" is neither counted as positional nor the token the scan
\* returned false on
DashNeitherCountedNorRejected ==
    /\ \A k \in DOMAIN evalLog : evalLog[k].text = "-" => evalLog[k].ok
    /\ \A k \in PositionalReads : evalLog[k].text # "-"
    /\ \A j \in 1..CountedPositional :
          ScanOf(params.args, params.profile).positional[j] # "-"

\* C23: a bare "-" is always skipped: never counted as positional, never
\* rejected, and for every profile and args the result equals the result for
\* args with all bare "-" tokens removed, wherever the "-" stands (also
\* directly behind a value-flag).
C23_BareDashAlwaysSkipped ==
    pc = "argv_done" =>
        /\ DashNeitherCountedNorRejected
        /\ ReturnedFlag = validateSafeBinArgv(WithoutBareDash(params.args), params.profile)

\* C23 as the code has it: a bare "-" is never counted as positional and
\* never rejected; it is skipped in flag position and behind "--", so the
\* result equals the result for args with all bare "-" tokens removed
\* whenever no "-" stands directly behind a value-flag that takes the next
\* token; there the "-" is consumed as the flag's value.
C23_BareDashSkippedUnlessValue ==
    pc = "argv_done" =>
        /\ DashNeitherCountedNorRejected
        /\ ~DashTakenAsValue =>
              ReturnedFlag = validateSafeBinArgv(WithoutBareDash(params.args), params.profile)
        /\ \A k \in DOMAIN evalLog :
              evalLog[k].text = "-" => evalLog[k].role \in {"skip", "value"}

\* tr - x -: both "-" tokens are passed over and the call passes as tr x does
C23_Witness ==
    /\ pc = "argv_done"
    /\ params.bin = "tr"
    /\ params.args = <<"-", "x", "-">>
    /\ evalLog = <<Role(1, "skip", "-", TRUE), Role(2, "positional", "x", TRUE),
                   Role(3, "skip", "-", TRUE)>>
    /\ WithoutBareDash(params.args) = <<"x">>
    /\ ReturnedFlag = TRUE

\* ------------------------------------------------------------------------
\* The token classifiers called on a token of their own
\* ------------------------------------------------------------------------
\* tokens: optional leading blank, a prefix, a rest
ClassifiedTokens ==
    {lead \o prefix \o rest :
        lead \in {"", " "},
        prefix \in {"", "./", "../", "~", "/", "C:/", "c:\\", "C:", "1:/", "ab:/", "-", ".."},
        rest \in {"", "x", "notes.txt", "dir/file", "a*", "a?", "[b]"}}

PathLikeCall ==
    /\ pc = "idle"
    /\ \E token \in ClassifiedTokens :
          /\ params' = [token |-> token]
          /\ result' = Some(isPathLikeToken(token))
    /\ pc' = "pathlike_done"
    /\ UNCHANGED <<processPlatform, scan, locals, evalLog, firstResult>>

SafeLiteralCall ==
    /\ pc = "idle"
    /\ \E token \in ClassifiedTokens :
          /\ params' = [token |-> token]
          /\ result' = Some(isSafeLiteralToken(token))
    /\ pc' = "literal_done"
    /\ UNCHANGED <<processPlatform, scan, locals, evalLog, firstResult>>

ClassifyReturn == pc \in {"pathlike_done", "literal_done"} /\ Forget

NextTokens == PathLikeCall \/ SafeLiteralCall \/ ClassifyReturn

SpecTokens == Init /\ [][NextTokens]_vars

\* path-like as the specification words it, on the trimmed token
PathPrefixes == {"./", "../", "~", "/"}

DriveLetters ==
    {"A", "B", "C", "D", "E", "F", "G", "H", "I", "J", "K", "L", "M",
     "N", "O", "P", "Q", "R", "S", "T", "U", "V", "W", "X", "Y", "Z",
     "a", "b", "c", "d", "e", "f", "g", "h", "i", "j", "k", "l", "m",
     "n", "o", "p", "q", "r", "s", "t", "u", "v", "w", "x", "y", "z"}

HasDrivePrefix(s) ==
    /\ Len(s) >= 3
    /\ SubSeq(s, 1, 1) \in DriveLetters
    /\ SubSeq(s, 2, 2) = ":"
    /\ SubSeq(s, 3, 3) \in {"/", "\\"}

DescribedPathLike(token) ==
    /\ Trim(token) # ""
    /\ Trim(token) # "-"
    /\ \/ \E prefix \in PathPrefixes :
             /\ Len(Trim(token)) >= Len(prefix)
             /\ SubSeq(Trim(token), 1, Len(prefix)) = prefix
       \/ HasDrivePrefix(Trim(token))

ContainsGlobChar(token) ==
    \E k \in 1..Len(token) : SubSeq(token, k, k) \in {"*", "?", "[", "]"}

\* C24: isPathLikeToken(t) is true iff the trimmed t is non-empty, is not
\* "-", and starts with ./, ../, ~ or /, or with a drive letter followed by
\* ":" and "/" or "\"; isSafeLiteralToken(t) is true iff t is empty, or t is
\* "-", or t has none of * ? [ ] and is not path-like; notes.txt, .. and
\* dir/file are safe literals.
C24_TokenClassification ==
    /\ pc = "pathlike_done" => ReturnedFlag = DescribedPathLike(params.token)
    /\ pc = "literal_done" =>
          ReturnedFlag = (\/ params.token = ""
                          \/ params.token = "-"
                          \/ ~ContainsGlobChar(params.token) /\ ~DescribedPathLike(params.token))
    /\ (pc = "literal_done" /\ params.token \in {"notes.txt", "..", "dir/file"})
          => ReturnedFlag = TRUE

\* a token with a blank before ./ is path-like
C24_Witness ==
    /\ pc = "pathlike_done"
    /\ params.token = " ./x"
    /\ ReturnedFlag = TRUE

\* ------------------------------------------------------------------------
\* evaluateExecAllowlist called with whatever its parameter type admits:
\* optional properties left out, any chains list beside the segments
\* ------------------------------------------------------------------------
SegShout == [argv |-> <<"MyTool">>,
             resolution |-> Resolution("MyTool", "", "MyTool")]

\* analyses whose chains are absent, empty, hold an empty part, or hold the
\* segments as one part
AdmittedAnalyses ==
    {[ok |-> TRUE, segments |-> list, chains |-> chains] :
        list \in SeqUpTo({SegHead, SegTool, SegShout}, 2),
        chains \in {None, Some(<<>>), Some(<<<<>>>>), Some(<<<<SegTool>>, <<>>>>)}}
    \cup
    {[ok |-> TRUE, segments |-> list, chains |-> Some(<<list>>)] :
        list \in SeqUpTo({SegHead, SegTool, SegShout}, 2)}

\* the properties of params that are not optional
RequiredInputs ==
    [analysis : AdmittedAnalyses,
     allowlist : {<<>>, <<EntryHead, EntryRm>>},
     safeBins : {{}, {"head"}},
     cwd : {"/work"},
     trustedSafeBinDirs : {{"/usr/bin", "/bin"}}]

\* the optional properties skillBins and autoAllowSkills, one or both given
SkillOptions ==
    {[skillBins |-> bins] : bins \in {{}, {"mytool"}}}
    \cup {[autoAllowSkills |-> flag] : flag \in BOOLEAN}
    \cup [skillBins : {{}, {"mytool"}}, autoAllowSkills : BOOLEAN]

AdmittedInputs ==
    RequiredInputs \cup {required @@ optional : required \in RequiredInputs,
                                              optional \in SkillOptions}

ExecCallAdmitted ==
    /\ pc = "idle"
    /\ \E p \in AdmittedInputs :
       \E evaluation \in {evaluateExecAllowlist(p, processPlatform)} :
          /\ params' = p
          /\ result' = Some(Visible(evaluation))
          /\ evalLog' = evaluation.trace
    /\ pc' = "exec_done"
    /\ UNCHANGED <<processPlatform, scan, locals, firstResult>>

NextAdmitted == ExecCallAdmitted \/ ExecReturn

SpecAdmitted == Init /\ [][NextAdmitted]_vars

\* autoAllowSkills is true and skillBins is a non-empty set
SkillsEnabled ==
    /\ Given(params, "autoAllowSkills")
    /\ params.autoAllowSkills = TRUE
    /\ Given(params, "skillBins")
    /\ params.skillBins # {}

\* C25: a segment is attributed to skills only if autoAllowSkills is true,
\* skillBins is non-empty, the resolution of the segment has an executableName
\* that is a member of skillBins as it stands (not lowercased), and the
\* segment has neither an allowlist match nor passed the safe-bin gate; with
\* autoAllowSkills false or absent, or skillBins empty or absent, no segment
\* is attributed to skills.
C25_SkillsOnlyWhenEnabled ==
    pc = "exec_done" =>
        /\ \A i \in DOMAIN evalLog :
              evalLog[i].by = "skills" =>
                  /\ SkillsEnabled
                  /\ evalLog[i].segment.resolution # None
                  /\ \E name \in params.skillBins :
                        /\ name # ""
                        /\ Some(name) = {r.executableName : r \in evalLog[i].segment.resolution}
                  /\ ~HasMatch(evalLog[i].segment)
                  /\ ~PassesGate(evalLog[i].segment)
        /\ ~SkillsEnabled =>
              /\ \A i \in DOMAIN evalLog : evalLog[i].by # "skills"
              /\ \A i \in DOMAIN Returned.segmentSatisfiedBy :
                    Returned.segmentSatisfiedBy[i] # "skills"

\* mytool is attributed to skills; MyTool, evaluated next under the same
\* skillBins, is not
C25_Witness ==
    /\ pc = "exec_done"
    /\ SkillsEnabled
    /\ params.skillBins = {"mytool"}
    /\ params.analysis.segments = <<SegTool, SegShout>>
    /\ params.analysis.chains = None
    /\ Len(evalLog) = 2
    /\ evalLog[1].by = "skills"
    /\ evalLog[2].by = "none"
    /\ Returned.segmentSatisfiedBy = <<"skills", "none">>

\* the attribution of a segment by the order allowlist, safe bins, skills
AttributionOf(segment) ==
    IF HasMatch(segment) THEN "allowlist"
    ELSE IF PassesGate(segment) THEN "safeBins"
    ELSE IF SkillAllowed(segment) THEN "skills"
    ELSE "none"

\* C26: segmentSatisfiedBy holds one entry per evaluated segment, in segment
\* order: in every result of evaluateShellAllowlist with analysisOk = true it
\* is no longer than segments and its i-th entry is the attribution of the
\* i-th returned segment; when allowlistSatisfied = true the two lists have
\* equal length and no entry is none.
C26_OneAttributionPerEvaluatedSegment ==
    (pc = "shell_done" /\ Returned.analysisOk) =>
        /\ Len(Returned.segmentSatisfiedBy) <= Len(Returned.segments)
        /\ Len(Returned.segmentSatisfiedBy) = Len(evalLog)
        /\ \A i \in DOMAIN Returned.segmentSatisfiedBy :
              /\ Returned.segmentSatisfiedBy[i] = AttributionOf(Returned.segments[i])
              /\ evalLog[i].segment = Returned.segments[i]
        /\ Returned.allowlistSatisfied =>
              /\ Len(Returned.segmentSatisfiedBy) = Len(Returned.segments)
              /\ \A i \in DOMAIN Returned.segmentSatisfiedBy :
                    Returned.segmentSatisfiedBy[i] # "none"

\* head ; rm | head: the second part is denied at rm, so three segments are
\* returned with the attributions of the first two
C26_Witness ==
    /\ pc = "shell_done"
    /\ Returned.analysisOk
    /\ ~Returned.allowlistSatisfied
    /\ Len(Parts) = 2
    /\ Len(Returned.segments) = 3
    /\ Returned.segmentSatisfiedBy = <<"safeBins", "none">>
    /\ Returned.segments[2].argv = <<"rm", "-rf", "/tmp/x">>

\* the first chain part whose evaluation is unsatisfied
IsFirstUnsatisfiedPart(k) ==
    /\ ~PartEvaluation(k).allowlistSatisfied
    /\ \A j \in 1..(k - 1) : PartEvaluation(j).allowlistSatisfied

\* the segments of the command analysed as one unit
WholeCommandSegments == analyzeShellCommand(AnalyzeParams(params, params.command)).segments

\* C27: whenever evaluateShellAllowlist returns analysisOk = true, the
\* returned segments are the analysed segments of every chain part of the
\* command, concatenated in chain order, also when the result is denied.
C27_SegmentsOfEveryPart ==
    (pc = "shell_done" /\ Returned.analysisOk) =>
        Returned.segments =
            IF chainParts = None THEN WholeCommandSegments ELSE SegmentsUpTo(Len(Parts))

\* C27 as the code has it: with analysisOk = true and allowlistSatisfied =
\* true the returned segments are the analysed segments of every chain part,
\* concatenated in chain order; when the result is denied they are those of
\* the chain parts up to and including the first unsatisfied part, and the
\* later parts are missing.
C27_SegmentsUpToFirstDenial ==
    (pc = "shell_done" /\ Returned.analysisOk) =>
        IF chainParts = None
        THEN Returned.segments = WholeCommandSegments
        ELSE IF Returned.allowlistSatisfied
             THEN Returned.segments = SegmentsUpTo(Len(Parts))
        ELSE \E k \in 1..Len(Parts) :
                /\ IsFirstUnsatisfiedPart(k)
                /\ Returned.segments = SegmentsUpTo(k)

\* rm ; head ; head: denied at the first of three parts, one segment returned
C27_Witness ==
    /\ pc = "shell_done"
    /\ Returned.analysisOk
    /\ ~Returned.allowlistSatisfied
    /\ Len(Parts) = 3
    /\ IsFirstUnsatisfiedPart(1)
    /\ Len(Returned.segments) = 1
    /\ Len(SegmentsUpTo(Len(Parts))) = 3

\* the positions of the returned attributions that are allowlist
AllowlistPositions ==
    {i \in DOMAIN Returned.segmentSatisfiedBy : Returned.segmentSatisfiedBy[i] = "allowlist"}

\* the place of position i among the allowlist positions
RankOf(i) == Cardinality({j \in AllowlistPositions : j <= i})

\* C28: in every result of evaluateExecAllowlist and evaluateShellAllowlist,
\* allowlistMatches holds exactly one entry for each segmentSatisfiedBy
\* entry equal to allowlist, in the same order: the entry matched for that
\* segment; no match is reported for a segment attributed to safeBins, skills
\* or none, nor for a segment whose attribution is not reported.
C28_MatchesFollowAllowlistAttributions ==
    pc \in {"exec_done", "shell_done"} =>
        /\ Len(Returned.allowlistMatches) = Cardinality(AllowlistPositions)
        /\ Returned.segmentSatisfiedBy # <<>> =>
              Len(evalLog) = Len(Returned.segmentSatisfiedBy)
        /\ \A i \in AllowlistPositions :
              Some(Returned.allowlistMatches[RankOf(i)]) =
                  matchAllowlist(params.allowlist,
                                 CandidateResolution(evalLog[i].segment, params.cwd))

\* ./deploy | head | grep in two chain parts: two matches around a segment
\* attributed to safeBins
C28_Witness ==
    /\ pc = "exec_done"
    /\ params.analysis.chains # None
    /\ Len(ChainsOf(params.analysis)) = 2
    /\ Returned.segmentSatisfiedBy = <<"allowlist", "safeBins", "allowlist">>
    /\ Returned.allowlistMatches = <<EntryLocal, EntryGrep>>

\* C29: no vacuous approval: evaluateExecAllowlist does not return
\* allowlistSatisfied = true unless at least one segment was evaluated and
\* attributed (segmentSatisfiedBy is non-empty), also when analysis.chains is
\* present but empty or holds an empty chain part.
C29_NoVacuousApproval ==
    (pc = "exec_done" /\ Returned.allowlistSatisfied) =>
        /\ Len(evalLog) > 0
        /\ Returned.segmentSatisfiedBy # <<>>

\* the chain part the n-th call of the loop is made for
PartOfCall(n) == (n + 1) \div 2

\* C30: on the chain path of evaluateShellAllowlist the chain parts are
\* analysed and evaluated strictly in the order splitCommandChain returned
\* them, each part analysed before it is evaluated; after the first part
\* whose analysis fails or whose evaluation is unsatisfied no later part is
\* analysed or evaluated; within a part the segments are evaluated in order
\* and evaluation stops at the first segment resolving to none.
C30_PartsInOrderUntilFirstFailure ==
    (pc \in {"shell_loop", "shell_done"} /\ chainParts # None) =>
        /\ \A n \in DOMAIN callLog :
              /\ PartOfCall(n) \in 1..Len(Parts)
              /\ callLog[n].command = Parts[PartOfCall(n)]
              /\ callLog[n].call = IF n % 2 = 1 THEN "analyze" ELSE "evaluate"
              /\ n < Len(callLog) => callLog[n].ok
        /\ pc = "shell_done" =>
              /\ Len(callLog) > 0
              /\ Returned.allowlistSatisfied =
                    (Len(callLog) = 2 * Len(Parts) /\ callLog[Len(callLog)].ok)
              /\ Len(callLog) < 2 * Len(Parts) => ~callLog[Len(callLog)].ok
        /\ \A i \in DOMAIN evalLog :
              /\ evalLog[i].segment = segments[i]
              /\ i < Len(evalLog) => evalLog[i].by # "none"

\* three chain parts, the second unsatisfied: two analyses and two
\* evaluations were made, none for the third part
C30_Witness ==
    /\ pc = "shell_done"
    /\ Len(Parts) = 3
    /\ Len(callLog) = 4
    /\ callLog[3] = [call |-> "analyze", command |-> Parts[2], ok |-> TRUE]
    /\ callLog[4] = [call |-> "evaluate", command |-> Parts[2], ok |-> FALSE]
    /\ Len(evalLog) = 2
    /\ evalLog[2].by = "none"

====
